---- MODULE Spec2Model ----
(***************************************************************************)
(* LectureClip process-results pipeline.                                   *)
(*                                                                         *)
(* parse_transcript (transcript_utils.py) is modelled loop iteration by    *)
(* loop iteration: _process_items folds punctuation into the preceding     *)
(* word, _combine_by_speaker groups the resulting (second, speaker, text)  *)
(* tuples into chunks.                                                     *)
(*                                                                         *)
(* A Python str is a run-length encoded sequence of [c, n] records (the    *)
(* character c repeated n times, adjacent runs of distinct characters), so *)
(* that a text of a thousand characters is a short value and len(),        *)
(* concatenation, rstrip() and endswith() are computed on it exactly.      *)
(* An optional Python value (None or a value) is a sequence of length 0    *)
(* or 1.                                                                   *)
(***************************************************************************)
EXTENDS Integers, Sequences, FiniteSets, TLC

VARIABLES
    items,        \* transcript_json["results"]["items"]
    pc,           \* the statement the invocation is at
    idx,          \* position of the running for loop (1-based)
    result,       \* _process_items: result
    cur_sec, cur_spk, cur_txt,   \* _combine_by_speaker: the accumulator
    chunks,       \* _combine_by_speaker: chunks
    event,        \* the handler's event
    doc,          \* the document the transcript store holds at transcriptUrl
    bedrock,      \* the behaviour of the embedding service
    media_uri,    \* handler: media_uri
    embeddings,   \* generate_text_embeddings: results
    response,     \* the handler's return value, once it has returned
    raised,       \* the exception the handler has raised, if any
    fetched,      \* the get_object requests the transcript store has received
    invoked,      \* the texts the embedding service was asked to embed
    run,          \* which invocation of the handler on this event this is
    prev,         \* what the previous invocation produced
    fn,           \* the upload Lambda that is invoked
    request,      \* its event: the HTTP method and the fields of the body
    api_pc,       \* the statement the upload Lambda is at
    s3_calls,     \* the calls s3_client has received, with their outcomes
    timestamp,    \* multipart-init, video-upload: timestamp
    upload_id,    \* multipart-init: upload_id
    part_count,   \* multipart-init: part_count
    part_number,  \* multipart-init: part_number of the running loop
    presigned_urls,  \* multipart-init: presigned_urls
    reply,        \* the upload Lambda's return value, once it has returned
    trig_event,   \* s3-trigger: the event
    trig_pc,      \* s3-trigger: the statement the handler is at
    trig_now,     \* s3-trigger: timestamp
    sfn_calls,    \* s3-trigger: the start_execution calls, with their outcomes
    trig_reply,   \* s3-trigger: the return value, once it has returned
    trig_raised,  \* s3-trigger: the exception raised, if any
    st_event,     \* start-transcribe: the event (s3_uri and task token)
    st_pc,        \* start-transcribe: the statement the handler is at
    transcribe,   \* Amazon Transcribe: the job, as get_transcription_job reports it
    table,        \* the job's record in the DynamoDB table, if there is one
    pt_pc,        \* process-transcribe: the statement the handler is at
    pt_local,     \* process-transcribe: the handler's local variables
    signals,      \* the task signals Step Functions has been sent
    file,         \* upload client: the file (extension and size in bytes)
    client_pc,    \* upload client: the statement upload_file is at
    api_log,      \* upload client: the API calls made, in order
    uploaded_parts,  \* upload client: uploaded_parts
    puts,            \* upload client: the PUTs to presigned URLs, with the bytes sent
    client_result    \* upload client: the result returned, or the failure

parseVars == <<items, pc, idx, result, cur_sec, cur_spk, cur_txt, chunks>>
handlerVars ==
    <<event, doc, bedrock, media_uri, embeddings, response, raised, fetched, invoked>>
runVars == <<run, prev>>
apiVars ==
    <<fn, request, api_pc, s3_calls, timestamp, upload_id, part_count, part_number,
      presigned_urls, reply>>
trigVars == <<trig_event, trig_pc, trig_now, sfn_calls, trig_reply, trig_raised>>
jobVars == <<st_event, st_pc, transcribe, table, pt_pc, pt_local, signals>>
clientVars == <<file, client_pc, api_log, uploaded_parts, puts, client_result>>
awsVars == <<trigVars, jobVars, clientVars>>
vars == <<parseVars, handlerVars, runVars, apiVars, awsVars>>

(***************************************************************************)
(* Bounds of the model.                                                    *)
(***************************************************************************)
MaxTokens == 5
MaxHandlerTokens == 3
MaxRerunTokens == 2
MaxParts == 3
LongLen == 1001

(***************************************************************************)
(* Program constants.                                                      *)
(***************************************************************************)
_MAX_CHUNK_CHARS == 1000
ShortTailChars == 100
EMBEDDING_DIM == 1024
EMBEDDING_MODEL_ID == "amazon.titan-embed-text-v2:0"

(***************************************************************************)
(* Python values.                                                          *)
(***************************************************************************)
None == <<>>
Some(v) == <<v>>
Val(o) == o[1]

Last(s) == s[Len(s)]
Front(s) == SubSeq(s, 1, Len(s) - 1)

\* str: the empty string, a character repeated, concatenation (s + t).
EmptyStr == <<>>
Rep(c, n) == IF n = 0 THEN <<>> ELSE <<[c |-> c, n |-> n]>>
Cat(s, t) ==
    IF s = <<>> THEN t
    ELSE IF t = <<>> THEN s
    ELSE IF Last(s).c = t[1].c
         THEN Front(s) \o <<[c |-> t[1].c, n |-> Last(s).n + t[1].n]>> \o Tail(t)
         ELSE s \o t

\* A string literal, given character by character.
RECURSIVE Lit(_)
Lit(chars) ==
    IF chars = <<>> THEN EmptyStr
    ELSE Cat(Lit(Front(chars)), Rep(Last(chars), 1))

\* len(s)
RECURSIVE StrLen(_)
StrLen(s) == IF s = <<>> THEN 0 ELSE Last(s).n + StrLen(Front(s))

\* s.rstrip(): trailing whitespace removed.
Whitespace == {" ", "\t", "\n"}
RECURSIVE RStrip(_)
RStrip(s) ==
    IF s = <<>> THEN s
    ELSE IF Last(s).c \in Whitespace THEN RStrip(Front(s))
    ELSE s

\* s.endswith(suffixes) for one-character suffixes.
EndsWith(s, suffixes) == s # <<>> /\ Last(s).c \in suffixes

\* s.startswith(t)
StartsWith(s, t) ==
    \/ t = <<>>
    \/ /\ Len(s) >= Len(t)
       /\ SubSeq(s, 1, Len(t) - 1) = Front(t)
       /\ s[Len(t)].c = Last(t).c
       /\ s[Len(t)].n >= Last(t).n

\* not s.strip(): empty or whitespace only.
IsBlank(s) == RStrip(s) = <<>>

\* f"{a} {b}"
JoinSpace(a, b) == Cat(Cat(a, Rep(" ", 1)), b)

(***************************************************************************)
(* Transcribe items.  start_time is in hundredths of a second ("0.40" is   *)
(* 40); a punctuation item carries neither start_time nor speaker_label.   *)
(***************************************************************************)
Word(content, start_time, speaker_label) ==
    [type |-> "pronunciation", content |-> content,
     start_time |-> Some(start_time), speaker_label |-> speaker_label]
Punct(content) ==
    [type |-> "punctuation", content |-> content,
     start_time |-> None, speaker_label |-> None]

\* Mutant: the start time is rounded up.
FloorSeconds_Ceil(start_time) == (start_time + 99) \div 100

\* math.floor(float(item["start_time"]))
FloorSeconds(start_time) == start_time \div 100

Hi == Lit(<<"h", "i">>)
Long == Rep("A", LongLen)

Tokens ==
    { Word(Hi, 40, Some("spk_0")),
      Word(Hi, 130, Some("spk_1")),
      Word(Long, 200, Some("spk_0")),
      Word(Hi, 1, None),
      Word(Rep(" ", 1), 250, Some("spk_0")),
      Punct(Lit(<<".">>)),
      Punct(Lit(<<"?">>)) }

TokenSeqs == UNION { [1..n -> Tokens] : n \in 0..MaxTokens }

\* SAMPLE_TRANSCRIPT["results"]["items"] of the tests (Scenario A).
ScenarioA ==
    << Word(Lit(<<"H","e","l","l","o">>), 1, Some("spk_0")),
       Word(Lit(<<"w","o","r","l","d">>), 40, Some("spk_0")),
       Punct(Lit(<<".">>)),
       Word(Lit(<<"T","h","i","s">>), 100, Some("spk_1")),
       Word(Lit(<<"i","s">>), 130, Some("spk_1")),
       Word(Lit(<<"s","p","e","a","k","e","r">>), 160, Some("spk_1")),
       Word(Lit(<<"t","w","o">>), 200, Some("spk_1")),
       Punct(Lit(<<".">>)) >>

(***************************************************************************)
(* _process_items: one iteration of its loop.                              *)
(***************************************************************************)
Seg(sec, spk, txt) == [sec |-> sec, spk |-> spk, txt |-> txt]

SpeakerOf(item) ==
    IF item.speaker_label = None THEN "spk_0" ELSE Val(item.speaker_label)

\* Mutant: the content is looked up at the wrong level of the item and
\* defaults to the empty string.
ContentOf_Missing(item) == EmptyStr

\* item["alternatives"][0]["content"]
ContentOf(item) == item.content

\* Mutant: a punctuation item with no preceding word becomes a tuple of its own.
ProcessItem_PunctStandalone(res, item) ==
    IF item.type = "punctuation"
    THEN IF res # <<>>
         THEN [res EXCEPT ![Len(res)] =
                  Seg(Last(res).sec, Last(res).spk, Cat(Last(res).txt, item.content))]
         ELSE Append(res, Seg(0, "spk_0", item.content))
    ELSE Append(res, Seg(FloorSeconds(Val(item.start_time)),
                         SpeakerOf(item), item.content))

\* Mutant: punctuation is attached with a separating space.
ProcessItem_SpaceBeforePunct(res, item) ==
    IF item.type = "punctuation"
    THEN IF res # <<>>
         THEN [res EXCEPT ![Len(res)] =
                  Seg(Last(res).sec, Last(res).spk, JoinSpace(Last(res).txt, item.content))]
         ELSE res
    ELSE Append(res, Seg(FloorSeconds(Val(item.start_time)),
                         SpeakerOf(item), item.content))

ProcessItem(res, item) ==
    IF item.type = "punctuation"
    THEN IF res # <<>>
         THEN [res EXCEPT ![Len(res)] =
                  Seg(Last(res).sec, Last(res).spk, Cat(Last(res).txt, ContentOf(item)))]
         ELSE res
    ELSE Append(res, Seg(FloorSeconds(Val(item.start_time)),
                         SpeakerOf(item), ContentOf(item)))

ProcessItemsStep ==
    /\ pc = "process_items"
    /\ idx <= Len(items)
    /\ result' = ProcessItem(result, items[idx])
    /\ idx' = idx + 1
    /\ UNCHANGED <<items, pc, cur_sec, cur_spk, cur_txt, chunks>>
    /\ UNCHANGED <<handlerVars, runVars, apiVars, awsVars>>

\* _process_items returns; parse_transcript calls _combine_by_speaker.
ProcessItemsReturn ==
    /\ pc = "process_items"
    /\ idx > Len(items)
    /\ pc' = "combine"
    /\ idx' = 1
    /\ chunks' = <<>>
    /\ cur_sec' = None /\ cur_spk' = None /\ cur_txt' = None
    /\ UNCHANGED <<items, result>>
    /\ UNCHANGED <<handlerVars, runVars, apiVars, awsVars>>

(***************************************************************************)
(* _combine_by_speaker.                                                    *)
(***************************************************************************)
SentenceEnd == {".", "!", "?"}

\* Mutant: the size alone flushes the accumulator.
FlushCondition_AnyEnding(txt) == StrLen(txt) > _MAX_CHUNK_CHARS

\* Mutant: the sentence boundary is tested without rstrip().
FlushCondition_NoRStrip(txt) ==
    /\ StrLen(txt) > _MAX_CHUNK_CHARS
    /\ EndsWith(txt, SentenceEnd)

FlushCondition(txt) ==
    /\ StrLen(txt) > _MAX_CHUNK_CHARS
    /\ EndsWith(RStrip(txt), SentenceEnd)

\* Mutant: a size-based flush emits the accumulator as it was before the
\* segment that triggered it.
CombineStep_FlushWithoutTrigger ==
    /\ pc = "combine"
    /\ idx <= Len(result)
    /\ LET sec == result[idx].sec
           spk == result[idx].spk
           txt == result[idx].txt
       IN  IF cur_spk = None
           THEN /\ cur_sec' = Some(sec) /\ cur_spk' = Some(spk) /\ cur_txt' = Some(txt)
                /\ UNCHANGED chunks
           ELSE IF spk = Val(cur_spk)
           THEN LET joined == JoinSpace(Val(cur_txt), txt)
                IN  IF FlushCondition(joined)
                    THEN /\ chunks' = Append(chunks,
                                             Seg(Val(cur_sec), Val(cur_spk), Val(cur_txt)))
                         /\ cur_sec' = Some(sec) /\ cur_spk' = Some(spk)
                         /\ cur_txt' = Some(txt)
                    ELSE /\ cur_txt' = Some(joined)
                         /\ UNCHANGED <<chunks, cur_sec, cur_spk>>
           ELSE /\ chunks' = Append(chunks, Seg(Val(cur_sec), Val(cur_spk), Val(cur_txt)))
                /\ cur_sec' = Some(sec) /\ cur_spk' = Some(spk) /\ cur_txt' = Some(txt)
    /\ idx' = idx + 1
    /\ UNCHANGED <<items, pc, result>>
    /\ UNCHANGED <<handlerVars, runVars, apiVars, awsVars>>

CombineStep ==
    /\ pc = "combine"
    /\ idx <= Len(result)
    /\ LET sec == result[idx].sec
           spk == result[idx].spk
           txt == result[idx].txt
       IN  IF cur_spk = None
           THEN /\ cur_sec' = Some(sec) /\ cur_spk' = Some(spk) /\ cur_txt' = Some(txt)
                /\ UNCHANGED chunks
           ELSE IF spk = Val(cur_spk)
           THEN LET joined == JoinSpace(Val(cur_txt), txt)
                IN  IF FlushCondition(joined)
                    THEN /\ chunks' = Append(chunks, Seg(Val(cur_sec), Val(cur_spk), joined))
                         /\ cur_sec' = Some(sec) /\ cur_spk' = Some(spk)
                         /\ cur_txt' = Some(txt)
                    ELSE /\ cur_txt' = Some(joined)
                         /\ UNCHANGED <<chunks, cur_sec, cur_spk>>
           ELSE /\ chunks' = Append(chunks, Seg(Val(cur_sec), Val(cur_spk), Val(cur_txt)))
                /\ cur_sec' = Some(sec) /\ cur_spk' = Some(spk) /\ cur_txt' = Some(txt)
    /\ idx' = idx + 1
    /\ UNCHANGED <<items, pc, result>>
    /\ UNCHANGED <<handlerVars, runVars, apiVars, awsVars>>

\* Mutant: the short tail is merged whatever the previous chunk's speaker.
TrailingMergeCondition_AnySpeaker(txt, spk, done) ==
    /\ StrLen(txt) < ShortTailChars
    /\ done # <<>>

\* Mutant: the tail is merged whatever its length.
TrailingMergeCondition_AnyLength(txt, spk, done) ==
    /\ done # <<>>
    /\ Last(done).spk = spk

\* Mutant: a short tail is merged into the previous chunk of any speaker.
CombineTail_MergeAcrossSpeakers(done, sec, spk, txt) ==
    IF StrLen(txt) < ShortTailChars /\ done # <<>>
    THEN Append(Front(done),
                Seg(Last(done).sec, Last(done).spk, JoinSpace(Last(done).txt, txt)))
    ELSE Append(done, Seg(sec, spk, txt))

\* The short-trailing-fragment test of the end of _combine_by_speaker.
TrailingMergeCondition(txt, spk, done) ==
    /\ StrLen(txt) < ShortTailChars
    /\ done # <<>>
    /\ Last(done).spk = spk

\* Mutant: the merged chunk is appended without popping the previous one.
CombineTail_NoPop(done, sec, spk, txt) ==
    IF StrLen(txt) < ShortTailChars /\ done # <<>> /\ Last(done).spk = spk
    THEN Append(done,
                Seg(Last(done).sec, Last(done).spk, JoinSpace(Last(done).txt, txt)))
    ELSE Append(done, Seg(sec, spk, txt))

\* Mutant: the merged chunk takes the second of the trailing fragment.
CombineTail_TailSecond(done, sec, spk, txt) ==
    IF StrLen(txt) < ShortTailChars /\ done # <<>> /\ Last(done).spk = spk
    THEN Append(Front(done),
                Seg(sec, Last(done).spk, JoinSpace(Last(done).txt, txt)))
    ELSE Append(done, Seg(sec, spk, txt))

CombineTail(done, sec, spk, txt) ==
    IF TrailingMergeCondition(txt, spk, done)
    THEN Append(Front(done),
                Seg(Last(done).sec, Last(done).spk, JoinSpace(Last(done).txt, txt)))
    ELSE Append(done, Seg(sec, spk, txt))

\* Mutant: a short trailing accumulator is discarded.
CombineEnd_DropsShortTail ==
    /\ pc = "combine"
    /\ idx > Len(result)
    /\ chunks' = IF cur_txt # None /\ StrLen(Val(cur_txt)) >= ShortTailChars
                 THEN Append(chunks, Seg(Val(cur_sec), Val(cur_spk), Val(cur_txt)))
                 ELSE chunks
    /\ pc' = "parsed"
    /\ UNCHANGED <<items, idx, result, cur_sec, cur_spk, cur_txt>>
    /\ UNCHANGED <<handlerVars, runVars, apiVars, awsVars>>

\* Mutant: with nothing accumulated an empty chunk is appended.
CombineEnd_EmitsEmptyChunk ==
    /\ pc = "combine"
    /\ idx > Len(result)
    /\ chunks' = IF cur_txt # None
                 THEN CombineTail(chunks, Val(cur_sec), Val(cur_spk), Val(cur_txt))
                 ELSE Append(chunks, Seg(0, "spk_0", EmptyStr))
    /\ pc' = "parsed"
    /\ UNCHANGED <<items, idx, result, cur_sec, cur_spk, cur_txt>>
    /\ UNCHANGED <<handlerVars, runVars, apiVars, awsVars>>

CombineEnd ==
    /\ pc = "combine"
    /\ idx > Len(result)
    /\ chunks' = IF cur_txt # None
                 THEN CombineTail(chunks, Val(cur_sec), Val(cur_spk), Val(cur_txt))
                 ELSE chunks
    /\ pc' = "parsed"
    /\ UNCHANGED <<items, idx, result, cur_sec, cur_spk, cur_txt>>
    /\ UNCHANGED <<handlerVars, runVars, apiVars, awsVars>>

(***************************************************************************)
(* parse_transcript applied to a bounded transcript.  The handler's state  *)
(* is not in use.                                                          *)
(***************************************************************************)
\* No upload Lambda is invoked.
NoRequest ==
    [httpMethod |-> "", body_is_json |-> FALSE, filename |-> None, userId |-> None,
     contentType |-> None, fileSize |-> None, fileKey |-> None, uploadId |-> None,
     parts |-> None]

ApiIdle ==
    /\ fn = "none"
    /\ request = NoRequest
    /\ api_pc = "idle"
    /\ s3_calls = <<>>
    /\ timestamp = None
    /\ upload_id = None
    /\ part_count = 0
    /\ part_number = 0
    /\ presigned_urls = <<>>
    /\ reply = None

\* s3-trigger is not invoked.
TrigIdle ==
    /\ trig_event = [form |-> "none", bucket |-> <<>>, key |-> <<>>]
    /\ trig_pc = "idle"
    /\ trig_now = <<>>
    /\ sfn_calls = <<>>
    /\ trig_reply = None
    /\ trig_raised = None

\* Neither start-transcribe nor process-transcribe is invoked.
NoLocals ==
    [job_name |-> "", job_status |-> "", media_url |-> None, transcript_url |-> None,
     sftoken |-> None, raised |-> None]

NoJob == [name |-> "", status |-> "none", media |-> None, transcript |-> None]

JobIdle ==
    /\ st_event = [s3_uri |-> None, sftoken |-> None]
    /\ st_pc = "idle"
    /\ transcribe = NoJob
    /\ table = None
    /\ pt_pc = "idle"
    /\ pt_local = NoLocals
    /\ signals = <<>>

\* The upload client is not running.
ClientIdle ==
    /\ file = [name |-> "", extension |-> "", size |-> 0]
    /\ client_pc = "idle"
    /\ api_log = <<>>
    /\ uploaded_parts = <<>>
    /\ puts = <<>>
    /\ client_result = None

AwsIdle == TrigIdle /\ JobIdle /\ ClientIdle

NoEvent == [transcriptUrl |-> None, mediaUrl |-> None, s3_uri |-> None]

ParseStart(its) ==
    /\ items = its
    /\ pc = "process_items"
    /\ idx = 1
    /\ result = <<>>
    /\ chunks = <<>>
    /\ cur_sec = None /\ cur_spk = None /\ cur_txt = None

Init ==
    /\ \E its \in TokenSeqs \cup {ScenarioA} : ParseStart(its)
    /\ event = NoEvent
    /\ doc = "none"
    /\ bedrock = "none"
    /\ media_uri = <<>>
    /\ embeddings = <<>>
    /\ response = None
    /\ raised = None
    /\ fetched = <<>>
    /\ invoked = <<>>
    /\ run = 1
    /\ prev = None
    /\ ApiIdle
    /\ AwsIdle

Next ==
    \/ ProcessItemsStep
    \/ ProcessItemsReturn
    \/ CombineStep
    \/ CombineEnd

Spec == Init /\ [][Next]_vars

(***************************************************************************)
(* The process-results handler (index.py) and generate_text_embeddings     *)
(* (bedrock_utils.py).                                                     *)
(*                                                                         *)
(* A URI is the sequence of its "/"-separated components; the empty string *)
(* is the empty sequence.  An embedding vector is [len, of]: its length    *)
(* and the text it embeds.                                                 *)
(***************************************************************************)
TRANSCRIPT_URL ==
    <<"https:", "", "s3.us-east-1.amazonaws.com", "test-transcripts",
      "jobs", "job-123", "transcribe.json">>
MEDIA_URI == <<"s3:", "", "test-bucket", "2024-01", "user1", "lecture.mp4">>

Events ==
    { [transcriptUrl |-> Some(TRANSCRIPT_URL), mediaUrl |-> Some(MEDIA_URI), s3_uri |-> None],
      [transcriptUrl |-> Some(TRANSCRIPT_URL), mediaUrl |-> None, s3_uri |-> None],
      [transcriptUrl |-> Some(<<>>), mediaUrl |-> Some(MEDIA_URI), s3_uri |-> None],
      [transcriptUrl |-> Some(<<"transcribe.json">>), mediaUrl |-> None, s3_uri |-> None],
      [transcriptUrl |-> None, mediaUrl |-> None, s3_uri |-> Some(MEDIA_URI)] }

HandlerTokenSeqs == UNION { [1..n -> Tokens] : n \in 0..MaxHandlerTokens }

\* uuid.uuid4() and datetime.now(timezone.utc) yield values of these sets.
Uuids == {"uuid_a", "uuid_b"}
Instants == {"T1", "T2"}

\* Mutant: only a missing value is false.
Truthy_NoneOnly(o) == o # None

\* Python truthiness of an optional string: None and "" are false.
Truthy(o) == o # None /\ Val(o) # <<>>

\* event.get("mediaUrl") or event.get("s3_uri", "")
MediaUriOf(ev) ==
    IF Truthy(ev.mediaUrl) THEN Val(ev.mediaUrl)
    ELSE IF ev.s3_uri # None THEN Val(ev.s3_uri)
    ELSE <<>>

\* handler, up to the call of fetch_and_parse_transcript.
HandlerStart ==
    /\ pc = "handler"
    /\ media_uri' = MediaUriOf(event)
    /\ IF ~Truthy(event.transcriptUrl)
       THEN /\ raised' = Some("ValueError: transcriptUrl is required")
            /\ pc' = "failed"
       ELSE /\ pc' = "fetch"
            /\ UNCHANGED raised
    /\ UNCHANGED <<items, idx, result, cur_sec, cur_spk, cur_txt, chunks>>
    /\ UNCHANGED <<event, doc, bedrock, embeddings, response, fetched, invoked, runVars, apiVars, awsVars>>

\* url.split("//", 1)[-1]: what follows the first "//" of the URL, the whole
\* URL if it has none.  A "//" is an empty component that is neither the
\* first nor the last.
HostAndPath(url) ==
    LET slashes == { k \in 2..(Len(url) - 1) : url[k] = "" }
    IN  IF slashes = {} THEN url
        ELSE SubSeq(url, 1 + (CHOOSE k \in slashes : \A j \in slashes : k <= j), Len(url))

\* _, bucket, key = host_and_path.split("/", 2) succeeds if there are three
\* parts; the key is what follows the second "/".
HasS3Coords(url) == Len(HostAndPath(url)) >= 3

\* _s3_coords_from_url: (bucket, key) of a path-style URL
\* https://s3.<region>.amazonaws.com/<bucket>/<key>.  The keys of the model
\* hold no percent escape, so that unquote(key) is the key.
S3CoordsFromUrl(url) ==
    [Bucket |-> HostAndPath(url)[2],
     Key |-> SubSeq(HostAndPath(url), 3, Len(HostAndPath(url)))]

\* fetch_transcript_json: the URL has no bucket and key, or s3.get_object
\* is called and fails, or returns the stored document; parse_transcript
\* then reads its results.items.
FetchTranscript ==
    /\ pc = "fetch"
    /\ IF ~HasS3Coords(Val(event.transcriptUrl))
       THEN /\ raised' = Some("ValueError: not enough values to unpack")
            /\ pc' = "failed"
            /\ UNCHANGED <<idx, fetched>>
       ELSE /\ fetched' = Append(fetched, S3CoordsFromUrl(Val(event.transcriptUrl)))
            /\ \/ /\ raised' = Some("ClientError")
                  /\ pc' = "failed"
                  /\ UNCHANGED idx
               \/ /\ doc = "no_results"
                  /\ raised' = Some("KeyError")
                  /\ pc' = "failed"
                  /\ UNCHANGED idx
               \/ /\ doc = "transcript"
                  /\ pc' = "process_items"
                  /\ idx' = 1
                  /\ UNCHANGED raised
    /\ UNCHANGED <<items, result, cur_sec, cur_spk, cur_txt, chunks>>
    /\ UNCHANGED <<event, doc, bedrock, media_uri, embeddings, response, invoked, runVars, apiVars, awsVars>>

\* source_uri.rsplit("/", 1)[-1] if source_uri else ""
FileName(source_uri) == IF source_uri # <<>> THEN Last(source_uri) ELSE ""

\* The service's answer to embed_text(text, model_id, embedding_dim).
EmbedText(text, model_id, embedding_dim) ==
    [len |-> IF bedrock = "wrong_length" THEN embedding_dim - 1 ELSE embedding_dim,
     of |-> text]

\* Mutant: the model_id field receives a fresh uuid.
EmbeddingRecord_UuidAsModel(id, vector, chunk, source_uri, model_id, created_at) ==
    [id |-> id, embedding |-> vector, text |-> chunk.txt,
     start_second |-> chunk.sec, speaker |-> chunk.spk,
     source |-> FileName(source_uri), source_uri |-> source_uri,
     model_id |-> id, created_at |-> created_at]

EmbeddingRecord(id, vector, chunk, source_uri, model_id, created_at) ==
    [id |-> id, embedding |-> vector, text |-> chunk.txt,
     start_second |-> chunk.sec, speaker |-> chunk.spk,
     source |-> FileName(source_uri), source_uri |-> source_uri,
     model_id |-> model_id, created_at |-> created_at]

\* Mutant: the new record is put in front of the list.
AddRecord_InFront(results, record) == <<record>> \o results

\* results.append(record)
AddRecord(results, record) == Append(results, record)

\* Mutant: the embedding loop starts while _combine_by_speaker is running.
GenerateStart_BeforeAggregateEnds ==
    /\ pc = "combine"
    /\ pc' = "embed"
    /\ idx' = 1
    /\ embeddings' = <<>>
    /\ UNCHANGED <<items, result, cur_sec, cur_spk, cur_txt, chunks>>
    /\ UNCHANGED <<event, doc, bedrock, media_uri, response, raised, fetched, invoked,
                   runVars, apiVars, awsVars>>

\* The handler calls generate_text_embeddings(segments, ...), segments
\* being the chunk list parse_transcript returned.
GenerateStart ==
    /\ pc = "parsed"
    /\ pc' = "embed"
    /\ idx' = 1
    /\ embeddings' = <<>>
    /\ UNCHANGED <<items, result, cur_sec, cur_spk, cur_txt, chunks>>
    /\ UNCHANGED <<event, doc, bedrock, media_uri, response, raised, fetched, invoked,
                   runVars, apiVars, awsVars>>

\* Mutant: a failed call of embed_text is caught and the chunk is tried again.
EmbedStep_RetryOnError ==
    /\ pc = "embed"
    /\ idx <= Len(chunks)
    /\ invoked' = Append(invoked, chunks[idx].txt)
    /\ \/ /\ Len(invoked) <= Len(chunks)
          /\ UNCHANGED <<pc, raised, idx, embeddings>>
       \/ /\ \E id \in Uuids : \E now \in Instants :
                embeddings' =
                   AddRecord(embeddings,
                             EmbeddingRecord(id,
                                EmbedText(chunks[idx].txt, EMBEDDING_MODEL_ID, EMBEDDING_DIM),
                                chunks[idx], media_uri, EMBEDDING_MODEL_ID, now))
          /\ idx' = idx + 1
          /\ UNCHANGED <<pc, raised>>
    /\ UNCHANGED <<items, result, cur_sec, cur_spk, cur_txt, chunks>>
    /\ UNCHANGED <<event, doc, bedrock, media_uri, response, fetched, runVars, apiVars, awsVars>>

\* Mutant: a failed call of embed_text is caught and the chunk is left out.
EmbedStep_SkipOnError ==
    /\ pc = "embed"
    /\ idx <= Len(chunks)
    /\ invoked' = Append(invoked, chunks[idx].txt)
    /\ \/ /\ idx' = idx + 1
          /\ UNCHANGED <<pc, raised, embeddings>>
       \/ /\ \E id \in Uuids : \E now \in Instants :
                embeddings' =
                   AddRecord(embeddings,
                             EmbeddingRecord(id,
                                EmbedText(chunks[idx].txt, EMBEDDING_MODEL_ID, EMBEDDING_DIM),
                                chunks[idx], media_uri, EMBEDDING_MODEL_ID, now))
          /\ idx' = idx + 1
          /\ UNCHANGED <<pc, raised>>
    /\ UNCHANGED <<items, result, cur_sec, cur_spk, cur_txt, chunks>>
    /\ UNCHANGED <<event, doc, bedrock, media_uri, response, fetched, runVars, apiVars, awsVars>>

\* One iteration of the loop of generate_text_embeddings: the call of
\* embed_text raises, or returns a vector and a record is appended.
EmbedStep ==
    /\ pc = "embed"
    /\ idx <= Len(chunks)
    /\ invoked' = Append(invoked, chunks[idx].txt)
    /\ \/ /\ raised' = Some("ClientError")
          /\ pc' = "failed"
          /\ UNCHANGED <<idx, embeddings>>
       \/ /\ \E id \in Uuids : \E now \in Instants :
                embeddings' =
                   AddRecord(embeddings,
                             EmbeddingRecord(id,
                                EmbedText(chunks[idx].txt, EMBEDDING_MODEL_ID, EMBEDDING_DIM),
                                chunks[idx], media_uri, EMBEDDING_MODEL_ID, now))
          /\ idx' = idx + 1
          /\ UNCHANGED <<pc, raised>>
    /\ UNCHANGED <<items, result, cur_sec, cur_spk, cur_txt, chunks>>
    /\ UNCHANGED <<event, doc, bedrock, media_uri, response, fetched, runVars, apiVars, awsVars>>

\* Mutant: segmentCount counts the tuples of _process_items.
HandlerReturn_CountsNormalizerSegments ==
    /\ pc = "embed"
    /\ idx > Len(chunks)
    /\ response' = Some([statusCode |-> 200,
                         segmentCount |-> Len(result),
                         embeddingCount |-> Len(embeddings)])
    /\ pc' = "done"
    /\ UNCHANGED <<items, idx, result, cur_sec, cur_spk, cur_txt, chunks>>
    /\ UNCHANGED <<event, doc, bedrock, media_uri, embeddings, raised, fetched, invoked,
                   runVars, apiVars, awsVars>>

\* generate_text_embeddings returns and the handler returns its summary.
HandlerReturn ==
    /\ pc = "embed"
    /\ idx > Len(chunks)
    /\ response' = Some([statusCode |-> 200,
                         segmentCount |-> Len(chunks),
                         embeddingCount |-> Len(embeddings)])
    /\ pc' = "done"
    /\ UNCHANGED <<items, idx, result, cur_sec, cur_spk, cur_txt, chunks>>
    /\ UNCHANGED <<event, doc, bedrock, media_uri, embeddings, raised, fetched, invoked,
                   runVars, apiVars, awsVars>>

\* An invocation of the handler: the event, the stored document and the
\* embedding service are given.
HandlerEntry ==
    /\ pc = "handler"
    /\ idx = 1
    /\ result = <<>>
    /\ chunks = <<>>
    /\ cur_sec = None /\ cur_spk = None /\ cur_txt = None
    /\ media_uri = <<>>
    /\ embeddings = <<>>
    /\ response = None
    /\ raised = None
    /\ fetched = <<>>
    /\ invoked = <<>>

InitHandler ==
    /\ event \in Events
    /\ \/ doc = "transcript" /\ items \in HandlerTokenSeqs
       \/ doc = "no_results" /\ items = <<>>
    /\ bedrock \in {"ok", "wrong_length"}
    /\ HandlerEntry
    /\ run = 1
    /\ prev = None
    /\ ApiIdle
    /\ AwsIdle

NextHandler ==
    \/ HandlerStart
    \/ FetchTranscript
    \/ ProcessItemsStep
    \/ ProcessItemsReturn
    \/ CombineStep
    \/ CombineEnd
    \/ GenerateStart
    \/ EmbedStep
    \/ HandlerReturn

SpecHandler == InitHandler /\ [][NextHandler]_vars

(***************************************************************************)
(* The handler invoked a second time on the same event, with the same      *)
(* stored document and the same embedding service.                         *)
(***************************************************************************)
SecondInvocation ==
    /\ pc = "done"
    /\ run = 1
    /\ run' = 2
    /\ prev' = Some([chunks |-> chunks, embeddings |-> embeddings,
                     response |-> Val(response)])
    /\ pc' = "handler"
    /\ idx' = 1
    /\ result' = <<>>
    /\ chunks' = <<>>
    /\ cur_sec' = None /\ cur_spk' = None /\ cur_txt' = None
    /\ media_uri' = <<>>
    /\ embeddings' = <<>>
    /\ response' = None
    /\ raised' = None
    /\ fetched' = <<>>
    /\ invoked' = <<>>
    /\ UNCHANGED <<items, event, doc, bedrock, apiVars, awsVars>>

InitTwice ==
    /\ InitHandler
    /\ Len(items) <= MaxRerunTokens

NextTwice ==
    \/ HandlerStart
    \/ FetchTranscript
    \/ ProcessItemsStep
    \/ ProcessItemsReturn
    \/ CombineStep
    \/ CombineEnd
    \/ GenerateStart
    \/ EmbedStep
    \/ HandlerReturn
    \/ SecondInvocation

SpecTwice == InitTwice /\ [][NextTwice]_vars

(***************************************************************************)
(* The upload Lambdas: video-upload, multipart-init and multipart-complete *)
(* (their index.py).  The body of a reply is the object json.dumps is      *)
(* given; an S3 key is the sequence of its "/"-separated components.       *)
(***************************************************************************)
ALLOWED_TYPES == {"video/mp4", "video/mov"}
PART_SIZE == 100 * 1024 * 1024
PRESIGNED_URL_EXPIRY == 3600
PRESIGNED_URL_EXPIRY_VideoUpload == 300
BUCKET_NAME == "test-bucket"

\* The headers dict every handler builds before its try block.
Headers ==
    ("Access-Control-Allow-Origin" :> "*")
    @@ ("Access-Control-Allow-Headers" :>
           "Content-Type,X-Amz-Date,Authorization,X-Api-Key,X-Amz-Security-Token")
    @@ ("Access-Control-Allow-Methods" :> "POST,OPTIONS")

\* Mutant: the reply of the except Exception branch lacks the origin header.
Response_NoOriginOnError(status, hdrs, body) ==
    [statusCode |-> status,
     headers |-> IF status = 500
                 THEN [h \in DOMAIN hdrs \ {"Access-Control-Allow-Origin"} |-> hdrs[h]]
                 ELSE hdrs,
     body |-> body]

\* {'statusCode': ..., 'headers': ..., 'body': json.dumps(...)}
Response(status, hdrs, body) == [statusCode |-> status, headers |-> hdrs, body |-> body]

\* body.get(key, default)
Get(o, default) == IF o = None THEN default ELSE Val(o)

\* A fileSize field: a number, or a value int() does not accept.
Num(n) == [numeric |-> TRUE, n |-> n]
NotANumber == [numeric |-> FALSE, n |-> 0]

\* filename_path.split('/')[-1]
BaseName(filename_path) == Last(filename_path)

\* f"{timestamp}/{user_id}/{filename}"
Key(ts, user_id, filename) == <<ts, user_id, filename>>

\* Mutant: one part more than the whole parts the file holds.
PartCount_OnePastFloor(file_size) == file_size \div PART_SIZE + 1

\* math.ceil(file_size / PART_SIZE), for file_size > 0.  The float quotient
\* is exact enough for its ceiling to be the integer ceiling at these sizes.
PartCount(file_size) ==
    IF file_size % PART_SIZE = 0 THEN file_size \div PART_SIZE
    ELSE file_size \div PART_SIZE + 1

\* The truth value of an optional str whose value is a TLA+ string.
TruthyStr(o) == o # None /\ Val(o) # ""

\* The handler's first statements, the same in the three Lambdas: the CORS
\* preflight, then the parse of the body.  json.loads raises on a body that
\* is not JSON, which the except Exception branch answers.
ApiStart ==
    /\ api_pc = "start"
    /\ IF request.httpMethod = "OPTIONS"
       THEN /\ reply' = Some(Response(200, Headers,
                                      [message |-> "CORS preflight successful"]))
            /\ api_pc' = "returned"
       ELSE IF ~request.body_is_json
       THEN /\ reply' = Some(Response(500, Headers, [error |-> "Internal server error"]))
            /\ api_pc' = "returned"
       ELSE /\ api_pc' = "body"
            /\ UNCHANGED reply
    /\ UNCHANGED <<fn, request, s3_calls, timestamp, upload_id, part_count, part_number,
                   presigned_urls>>
    /\ UNCHANGED <<parseVars, handlerVars, runVars, awsVars>>

\* video-upload, from the reading of the body's fields to the return.
VideoUpload ==
    /\ api_pc = "body"
    /\ fn = "video-upload"
    /\ LET filename_path == Get(request.filename, <<"video.mp4">>)
           user_id == Get(request.userId, "anonymous")
           content_type == Get(request.contentType, "video/mp4")
       IN  IF content_type \notin ALLOWED_TYPES
           THEN /\ reply' = Some(Response(400, Headers,
                                   [error |-> "Invalid content type",
                                    allowedTypes |-> ALLOWED_TYPES]))
                /\ UNCHANGED <<s3_calls, timestamp>>
           ELSE \E now \in Instants :
                  LET key == Key(now, user_id, BaseName(filename_path))
                      url == [op |-> "put_object", Bucket |-> BUCKET_NAME, Key |-> key,
                              ContentType |-> content_type,
                              ExpiresIn |-> PRESIGNED_URL_EXPIRY_VideoUpload]
                  IN  /\ timestamp' = Some(now)
                      /\ \/ /\ s3_calls' = Append(s3_calls,
                                  [op |-> "generate_presigned_url", outcome |-> "ok"])
                            /\ reply' = Some(Response(200, Headers,
                                               [uploadUrl |-> url, fileKey |-> key]))
                         \/ /\ s3_calls' = Append(s3_calls,
                                  [op |-> "generate_presigned_url", outcome |-> "raised"])
                            /\ reply' = Some(Response(500, Headers,
                                               [error |-> "Internal server error"]))
    /\ api_pc' = "returned"
    /\ UNCHANGED <<fn, request, upload_id, part_count, part_number, presigned_urls>>
    /\ UNCHANGED <<parseVars, handlerVars, runVars, awsVars>>

\* multipart-init, from the reading of the body's fields to the call of
\* create_multipart_upload and the computation of part_count.
\* int(body.get('fileSize', 0)) is evaluated before the content type is
\* looked at, and raises on a value that is not a number.
MultipartInitCreate ==
    /\ api_pc = "body"
    /\ fn = "multipart-init"
    /\ LET filename_path == Get(request.filename, <<"video.mp4">>)
           user_id == Get(request.userId, "anonymous")
           content_type == Get(request.contentType, "video/mp4")
           size_field == Get(request.fileSize, Num(0))
           file_size == size_field.n
       IN  IF ~size_field.numeric
           THEN /\ reply' = Some(Response(500, Headers, [error |-> "Internal server error"]))
                /\ api_pc' = "returned"
                /\ UNCHANGED <<s3_calls, timestamp, upload_id, part_count, part_number>>
           ELSE IF content_type \notin ALLOWED_TYPES
           THEN /\ reply' = Some(Response(400, Headers,
                                   [error |-> "Invalid content type",
                                    allowedTypes |-> ALLOWED_TYPES]))
                /\ api_pc' = "returned"
                /\ UNCHANGED <<s3_calls, timestamp, upload_id, part_count, part_number>>
           ELSE IF file_size <= 0
           THEN /\ reply' = Some(Response(400, Headers,
                                   [error |-> "fileSize must be a positive integer (bytes)"]))
                /\ api_pc' = "returned"
                /\ UNCHANGED <<s3_calls, timestamp, upload_id, part_count, part_number>>
           ELSE \E now \in Instants :
                  LET call == [op |-> "create_multipart_upload", Bucket |-> BUCKET_NAME,
                               Key |-> Key(now, user_id, BaseName(filename_path)),
                               ContentType |-> content_type]
                  IN  /\ timestamp' = Some(now)
                      /\ \/ /\ s3_calls' = Append(s3_calls, [op |-> call.op, outcome |-> "ok"])
                            /\ upload_id' = Some("upload-1")
                            /\ part_count' = PartCount(file_size)
                            /\ part_number' = 1
                            /\ api_pc' = "presign"
                            /\ UNCHANGED reply
                         \/ /\ s3_calls' = Append(s3_calls,
                                                  [op |-> call.op, outcome |-> "raised"])
                            /\ reply' = Some(Response(500, Headers,
                                               [error |-> "Internal server error"]))
                            /\ api_pc' = "returned"
                            /\ UNCHANGED <<upload_id, part_count, part_number>>
    /\ UNCHANGED <<fn, request, presigned_urls>>
    /\ UNCHANGED <<parseVars, handlerVars, runVars, awsVars>>

\* The key multipart-init built.
MultipartKey ==
    Key(Val(timestamp), Get(request.userId, "anonymous"),
        BaseName(Get(request.filename, <<"video.mp4">>)))

\* One iteration of for part_number in range(1, part_count + 1).
MultipartInitPresign ==
    /\ api_pc = "presign"
    /\ part_number <= part_count
    /\ LET url == [op |-> "upload_part", Bucket |-> BUCKET_NAME, Key |-> MultipartKey,
                   UploadId |-> Val(upload_id), PartNumber |-> part_number,
                   ExpiresIn |-> PRESIGNED_URL_EXPIRY]
       IN  \/ /\ s3_calls' = Append(s3_calls,
                     [op |-> "generate_presigned_url", outcome |-> "ok"])
              /\ presigned_urls' =
                    Append(presigned_urls, [partNumber |-> part_number, uploadUrl |-> url])
              /\ part_number' = part_number + 1
              /\ UNCHANGED <<api_pc, reply>>
           \/ /\ s3_calls' = Append(s3_calls,
                     [op |-> "generate_presigned_url", outcome |-> "raised"])
              /\ reply' = Some(Response(500, Headers, [error |-> "Internal server error"]))
              /\ api_pc' = "returned"
              /\ UNCHANGED <<presigned_urls, part_number>>
    /\ UNCHANGED <<fn, request, timestamp, upload_id, part_count>>
    /\ UNCHANGED <<parseVars, handlerVars, runVars, awsVars>>

\* The loop is over: multipart-init returns.
MultipartInitReturn ==
    /\ api_pc = "presign"
    /\ part_number > part_count
    /\ reply' = Some(Response(200, Headers,
                        [uploadId |-> Val(upload_id), fileKey |-> MultipartKey,
                         partSize |-> PART_SIZE, partCount |-> part_count,
                         presignedUrls |-> presigned_urls]))
    /\ api_pc' = "returned"
    /\ UNCHANGED <<fn, request, s3_calls, timestamp, upload_id, part_count, part_number,
                   presigned_urls>>
    /\ UNCHANGED <<parseVars, handlerVars, runVars, awsVars>>

\* multipart-complete, from the reading of the body's fields to the return.
MultipartComplete ==
    /\ api_pc = "body"
    /\ fn = "multipart-complete"
    /\ IF ~(Truthy(request.fileKey) /\ TruthyStr(request.uploadId) /\ Truthy(request.parts))
       THEN /\ reply' = Some(Response(400, Headers,
                               [error |-> "Missing required fields: fileKey, uploadId, parts"]))
            /\ UNCHANGED s3_calls
       ELSE \/ /\ s3_calls' = Append(s3_calls,
                      [op |-> "complete_multipart_upload", outcome |-> "ok"])
               /\ \E location \in {None, Some("location")} :
                     reply' = Some(Response(200, Headers,
                                      [fileKey |-> Val(request.fileKey),
                                       location |-> Get(location, ""),
                                       bucket |-> BUCKET_NAME]))
            \/ /\ s3_calls' = Append(s3_calls,
                      [op |-> "complete_multipart_upload", outcome |-> "raised"])
               /\ reply' = Some(Response(500, Headers, [error |-> "Internal server error"]))
    /\ api_pc' = "returned"
    /\ UNCHANGED <<fn, request, timestamp, upload_id, part_count, part_number,
                   presigned_urls>>
    /\ UNCHANGED <<parseVars, handlerVars, runVars, awsVars>>

\* The events the Lambdas are invoked with.
Methods == {"OPTIONS", "POST"}
Filenames == {None, Some(<<"videos", "lecture.mp4">>)}
UserIds == {None, Some("user1")}
ContentTypes == {None, Some("video/mp4"), Some("video/mov"), Some("image/png")}

Sizes ==
    {-1, 0} \cup
    { n \in { k * PART_SIZE + d : k \in 0..MaxParts, d \in {-1, 0, 1} } :
         n >= 1 /\ n <= MaxParts * PART_SIZE }

FileSizes == {None, Some(NotANumber)} \cup { Some(Num(n)) : n \in Sizes }

PartLists == {None, Some(<<>>), Some(<<[PartNumber |-> 1, ETag |-> "etag-1"]>>)}

UploadRequests ==
    { [httpMethod |-> m, body_is_json |-> j, filename |-> f, userId |-> u,
       contentType |-> c, fileSize |-> None, fileKey |-> None, uploadId |-> None,
       parts |-> None] :
         m \in Methods, j \in BOOLEAN, f \in Filenames, u \in UserIds, c \in ContentTypes }

InitRequests ==
    { [httpMethod |-> m, body_is_json |-> j, filename |-> f, userId |-> None,
       contentType |-> c, fileSize |-> z, fileKey |-> None, uploadId |-> None,
       parts |-> None] :
         m \in Methods, j \in BOOLEAN, f \in Filenames, c \in ContentTypes, z \in FileSizes }

CompleteRequests ==
    { [httpMethod |-> m, body_is_json |-> j, filename |-> None, userId |-> None,
       contentType |-> None, fileSize |-> None, fileKey |-> k, uploadId |-> u,
       parts |-> p] :
         m \in Methods, j \in BOOLEAN,
         k \in {None, Some(<<"T1", "user1", "lecture.mp4">>)},
         u \in {None, Some(""), Some("upload-1")}, p \in PartLists }

InitApi ==
    /\ \/ fn = "video-upload" /\ request \in UploadRequests
       \/ fn = "multipart-init" /\ request \in InitRequests
       \/ fn = "multipart-complete" /\ request \in CompleteRequests
    /\ api_pc = "start"
    /\ s3_calls = <<>>
    /\ timestamp = None
    /\ upload_id = None
    /\ part_count = 0
    /\ part_number = 0
    /\ presigned_urls = <<>>
    /\ reply = None
    /\ items = <<>>
    /\ pc = "idle"
    /\ idx = 1
    /\ result = <<>>
    /\ chunks = <<>>
    /\ cur_sec = None /\ cur_spk = None /\ cur_txt = None
    /\ event = NoEvent
    /\ doc = "none"
    /\ bedrock = "none"
    /\ media_uri = <<>>
    /\ embeddings = <<>>
    /\ response = None
    /\ raised = None
    /\ fetched = <<>>
    /\ invoked = <<>>
    /\ run = 1
    /\ prev = None
    /\ AwsIdle

NextApi ==
    \/ ApiStart
    \/ VideoUpload
    \/ MultipartInitCreate
    \/ MultipartInitPresign
    \/ MultipartInitReturn
    \/ MultipartComplete

SpecApi == InitApi /\ [][NextApi]_vars

(***************************************************************************)
(* s3-trigger (its index.py).  Keys, bucket names, URIs and execution      *)
(* names are sequences of characters; a percent escape of an encoded key   *)
(* is one element.                                                         *)
(***************************************************************************)
STATE_MACHINE_ARN == "arn:aws:states:us-east-1:123456789012:stateMachine:TestMachine"
VIDEO_EXTENSIONS == { <<".", "m", "p", "4">>, <<".", "m", "o", "v">> }

\* urllib.parse.unquote_plus on one element: '+' and the escapes become the
\* character they stand for.
Decode(a) ==
    CASE a = "+" -> " "
      [] a = "%20" -> " "
      [] a = "%2E" -> "."
      [] OTHER -> a

UnquotePlus(key) == [i \in 1..Len(key) |-> Decode(key[i])]

\* str.lower(), over the letters of the model.
LowerChar(c) ==
    CASE c = "M" -> "m"
      [] c = "P" -> "p"
      [] c = "O" -> "o"
      [] c = "V" -> "v"
      [] OTHER -> c

Lower(str) == [i \in 1..Len(str) |-> LowerChar(str[i])]

\* str.endswith(suffix)
EndsWithStr(str, suffix) ==
    /\ Len(str) >= Len(suffix)
    /\ SubSeq(str, Len(str) - Len(suffix) + 1, Len(str)) = suffix

\* Mutant: the extension is compared without lower().
IsVideoKey_CaseSensitive(key) == \E ext \in VIDEO_EXTENSIONS : EndsWithStr(key, ext)

\* any(key.lower().endswith(ext) for ext in VIDEO_EXTENSIONS)
IsVideoKey(key) == \E ext \in VIDEO_EXTENSIONS : EndsWithStr(Lower(key), ext)

\* os.path.basename(key): what follows the last "/".
OsPathBasename(key) ==
    LET slashes == { i \in 1..Len(key) : key[i] = "/" }
    IN  IF slashes = {} THEN key
        ELSE SubSeq(key, 1 + (CHOOSE i \in slashes : \A j \in slashes : j <= i), Len(key))

\* filename[:6] if len(filename) >= 6 else filename
FilePrefix(filename) == IF Len(filename) >= 6 THEN SubSeq(filename, 1, 6) ELSE filename

\* f"s3://{bucket}/{key}"
S3Uri(bucket, key) == <<"s", "3", ":", "/", "/">> \o bucket \o <<"/">> \o key

\* f"{timestamp}-{file_prefix}"
MachineName(ts, file_prefix) == ts \o <<"-">> \o file_prefix

\* f"s3-trigger-{machine_name}"
ExecutionName(machine_name) ==
    <<"s", "3", "-", "t", "r", "i", "g", "g", "e", "r", "-">> \o machine_name

\* _extract_s3_record: None for the test event S3 sends through SNS, else
\* the s3 sub-record of the direct or of the SNS-wrapped notification.
ExtractS3Record(ev) ==
    IF ev.form = "sns_test" THEN None
    ELSE Some([bucket |-> ev.bucket, key |-> ev.key])

\* str(int(time.time()))
TrigSeconds == { <<"1", "7">>, <<"1", "8">> }

\* handler, up to the decision to start a workflow.
TrigCheck ==
    /\ trig_pc = "start"
    /\ LET s3_record == ExtractS3Record(trig_event)
       IN  IF s3_record = None
           THEN /\ trig_reply' = Some([statusCode |-> 200, body |-> "Test event, skipped."])
                /\ trig_pc' = "returned"
           ELSE IF ~IsVideoKey(UnquotePlus(Val(s3_record).key))
           THEN /\ trig_reply' = Some([statusCode |-> 200,
                                       body |-> "Not a video file, skipped."])
                /\ trig_pc' = "returned"
           ELSE /\ trig_pc' = "start_execution"
                /\ UNCHANGED trig_reply
    /\ UNCHANGED <<trig_event, trig_now, sfn_calls, trig_raised>>
    /\ UNCHANGED <<parseVars, handlerVars, runVars, apiVars, jobVars, clientVars>>

\* handler, from the building of s3_uri to the return.  start_execution
\* answers with an executionArn or raises, and the handler re-raises.
TrigStart ==
    /\ trig_pc = "start_execution"
    /\ \E now \in TrigSeconds :
         LET bucket == trig_event.bucket
             key == UnquotePlus(trig_event.key)
             s3_uri == S3Uri(bucket, key)
             machine_name == MachineName(now, FilePrefix(OsPathBasename(key)))
             call == [stateMachineArn |-> STATE_MACHINE_ARN,
                      name |-> ExecutionName(machine_name),
                      input |-> [s3_uri |-> s3_uri, sftoken |-> machine_name]]
         IN  /\ trig_now' = now
             /\ \/ /\ sfn_calls' = Append(sfn_calls, [call |-> call, outcome |-> "ok"])
                   /\ trig_reply' = Some([statusCode |-> 200, body |-> "Workflow started"])
                   /\ trig_pc' = "returned"
                   /\ UNCHANGED trig_raised
                \/ /\ sfn_calls' = Append(sfn_calls, [call |-> call, outcome |-> "raised"])
                   /\ trig_raised' = Some("ClientError")
                   /\ trig_pc' = "raised"
                   /\ UNCHANGED trig_reply
    /\ UNCHANGED trig_event
    /\ UNCHANGED <<parseVars, handlerVars, runVars, apiVars, jobVars, clientVars>>

\* The events: an S3 notification, direct or wrapped by SNS, for an object
\* of a bucket, or the test event S3 sends through SNS.
TrigKeys ==
    { <<"v", "/", "l", "e", "c", "t", "u", "r", "e", ".", "m", "p", "4">>,
      <<"a", ".", "m", "o", "v">>,
      <<"v", "/", "m", "y", "+", "c", "l", "i", "p", ".", "M", "P", "4">>,
      <<"v", "/", "c", "l", "i", "p", "%2E", "m", "o", "v">>,
      <<".", "M", "o", "V">>,
      <<"v", "/", "n", "o", "t", "e", "s", ".", "p", "d", "f">>,
      <<"v", "/", "c", "l", "i", "p", ".", "m", "p", "4", "%20">>,
      <<"v", "/", "c", "l", "i", "p", ".", "m", "p", "4", ".", "t", "x", "t">>,
      <<"m", "p", "4">> }

TrigBuckets == { <<"b", "1">>, <<"b", "2">> }

TrigEvents ==
    { [form |-> f, bucket |-> b, key |-> k] :
         f \in {"direct", "sns"}, b \in TrigBuckets, k \in TrigKeys }
    \cup { [form |-> "sns_test", bucket |-> <<>>, key |-> <<>>] }

InitTrigger ==
    /\ trig_event \in TrigEvents
    /\ trig_pc = "start"
    /\ trig_now = <<>>
    /\ sfn_calls = <<>>
    /\ trig_reply = None
    /\ trig_raised = None
    /\ JobIdle
    /\ ClientIdle
    /\ ApiIdle
    /\ items = <<>>
    /\ pc = "idle"
    /\ idx = 1
    /\ result = <<>>
    /\ chunks = <<>>
    /\ cur_sec = None /\ cur_spk = None /\ cur_txt = None
    /\ event = NoEvent
    /\ doc = "none"
    /\ bedrock = "none"
    /\ media_uri = <<>>
    /\ embeddings = <<>>
    /\ response = None
    /\ raised = None
    /\ fetched = <<>>
    /\ invoked = <<>>
    /\ run = 1
    /\ prev = None

NextTrigger ==
    \/ TrigCheck
    \/ TrigStart

SpecTrigger == InitTrigger /\ [][NextTrigger]_vars

(***************************************************************************)
(* start-transcribe (its index.py) and process-transcribe (index.py,       *)
(* transcribe_utils.py, dynamodb_utils.py, step_function_utils.py), with   *)
(* the Transcribe job and the job's record in the table between them.      *)
(* An s3:// URI is the sequence of its "/"-separated components.           *)
(***************************************************************************)
\* The Item start-transcribe puts.
JobItem(job_name, job_status, s3_uri, sftoken) ==
    [TranscriptionJobName |-> job_name, status |-> Some(job_status), s3_uri |-> s3_uri,
     sftoken |-> sftoken, transcriptUrl |-> None, mediaUrl |-> None]

\* start-transcribe, to the call of start_transcription_job: the job exists
\* from then on, or the call raises.
StStart ==
    /\ st_pc = "start"
    /\ \/ \E job_name \in Uuids :
            /\ transcribe' = [name |-> job_name, status |-> "IN_PROGRESS",
                              media |-> st_event.s3_uri, transcript |-> None]
            /\ st_pc' = "put_item"
       \/ /\ st_pc' = "raised"
          /\ UNCHANGED transcribe
    /\ UNCHANGED <<st_event, table, pt_pc, pt_local, signals>>
    /\ UNCHANGED <<parseVars, handlerVars, runVars, apiVars, trigVars, clientVars>>

\* start-transcribe, from put_item to the return.  put_item replaces the
\* whole item; the status stored is the one start_transcription_job
\* returned.
StPut ==
    /\ st_pc = "put_item"
    /\ \/ /\ table' = Some(JobItem(transcribe.name, "IN_PROGRESS", st_event.s3_uri,
                                   st_event.sftoken))
          /\ st_pc' = "returned"
       \/ /\ st_pc' = "raised"
          /\ UNCHANGED table
    /\ UNCHANGED <<st_event, transcribe, pt_pc, pt_local, signals>>
    /\ UNCHANGED <<parseVars, handlerVars, runVars, apiVars, trigVars, clientVars>>

\* The job reaches a terminal state and EventBridge invokes
\* process-transcribe.  Whether the job description of a failed job
\* carries a TranscriptFileUri is left open.
JobFinishes ==
    /\ transcribe.status = "IN_PROGRESS"
    /\ pt_pc = "idle"
    /\ \/ transcribe' = [transcribe EXCEPT !.status = "COMPLETED",
                                          !.transcript = Some(TRANSCRIPT_URL)]
       \/ \E t \in {None, Some(TRANSCRIPT_URL)} :
             transcribe' = [transcribe EXCEPT !.status = "FAILED", !.transcript = t]
    /\ pt_pc' = "start"
    /\ UNCHANGED <<st_event, st_pc, table, pt_local, signals>>
    /\ UNCHANGED <<parseVars, handlerVars, runVars, apiVars, trigVars, clientVars>>

\* get_transcribe_result_data: the event's job name and status, then the
\* job description's Media.MediaFileUri and Transcript.TranscriptFileUri.
\* get_transcription_job may raise; a description without a
\* TranscriptFileUri raises KeyError.
PtGet ==
    /\ pt_pc = "start"
    /\ \/ /\ pt_local' = [pt_local EXCEPT !.raised = Some("ClientError")]
          /\ pt_pc' = "raised"
       \/ IF transcribe.transcript = None
          THEN /\ pt_local' = [pt_local EXCEPT !.raised = Some("KeyError")]
               /\ pt_pc' = "raised"
          ELSE /\ pt_local' = [pt_local EXCEPT !.job_name = transcribe.name,
                                               !.job_status = transcribe.status,
                                               !.media_url = transcribe.media,
                                               !.transcript_url = transcribe.transcript]
               /\ pt_pc' = "update_item"
    /\ UNCHANGED <<st_event, st_pc, transcribe, table, signals>>
    /\ UNCHANGED <<parseVars, handlerVars, runVars, apiVars, trigVars, clientVars>>

\* table.update_item with a SET of every attribute of to_update and
\* ReturnValues ALL_NEW: the item is created if the key has none.
UpdateItem(tbl, job_name, to_update) ==
    IF tbl = None
    THEN [TranscriptionJobName |-> job_name, status |-> to_update.status, s3_uri |-> None,
          sftoken |-> None, transcriptUrl |-> to_update.transcriptUrl,
          mediaUrl |-> to_update.mediaUrl]
    ELSE [Val(tbl) EXCEPT !.status = to_update.status,
                          !.transcriptUrl = to_update.transcriptUrl,
                          !.mediaUrl = to_update.mediaUrl]

\* to_update of the handler.
ToUpdate(locals) ==
    [status |-> Some(locals.job_status), transcriptUrl |-> locals.transcript_url,
     mediaUrl |-> locals.media_url]

\* handler: update_item and the reading of sftoken from its answer.
PtUpdate ==
    /\ pt_pc = "update_item"
    /\ \/ /\ pt_local' = [pt_local EXCEPT !.raised = Some("ClientError")]
          /\ pt_pc' = "raised"
          /\ UNCHANGED table
       \/ LET updated_item == UpdateItem(table, pt_local.job_name, ToUpdate(pt_local))
          IN  /\ table' = Some(updated_item)
              /\ pt_local' = [pt_local EXCEPT !.sftoken = updated_item.sftoken]
              /\ pt_pc' = "signal"
    /\ UNCHANGED <<st_event, st_pc, transcribe, signals>>
    /\ UNCHANGED <<parseVars, handlerVars, runVars, apiVars, trigVars, clientVars>>

\* if job_status == "COMPLETED": send_task_success, else send_task_failure
SignalKind(job_status) == IF job_status = "COMPLETED" THEN "success" ELSE "failure"

\* handler: the signal to Step Functions, which accepts it or raises.
PtSignal ==
    /\ pt_pc = "signal"
    /\ LET signal == [kind |-> SignalKind(pt_local.job_status), token |-> pt_local.sftoken,
                      output |-> IF SignalKind(pt_local.job_status) = "success"
                                 THEN Some(ToUpdate(pt_local)) ELSE None]
       IN  \/ /\ signals' = Append(signals, [signal |-> signal, outcome |-> "ok"])
              /\ pt_pc' = "returned"
              /\ UNCHANGED pt_local
           \/ /\ signals' = Append(signals, [signal |-> signal, outcome |-> "raised"])
              /\ pt_local' = [pt_local EXCEPT !.raised = Some("ClientError")]
              /\ pt_pc' = "raised"
    /\ UNCHANGED <<st_event, st_pc, transcribe, table>>
    /\ UNCHANGED <<parseVars, handlerVars, runVars, apiVars, trigVars, clientVars>>

\* The events of start-transcribe: the s3_uri of a video and the task token.
MediaUris ==
    { MEDIA_URI, <<"s3:", "", "test-bucket", "lecture.mov">> }

TaskTokens == {"token-1", "token-2"}

StEvents == { [s3_uri |-> Some(u), sftoken |-> Some(t)] : u \in MediaUris, t \in TaskTokens }

\* Everything but the two Lambdas and what they share is at rest.
JobRest ==
    /\ TrigIdle
    /\ ClientIdle
    /\ ApiIdle
    /\ items = <<>>
    /\ pc = "idle"
    /\ idx = 1
    /\ result = <<>>
    /\ chunks = <<>>
    /\ cur_sec = None /\ cur_spk = None /\ cur_txt = None
    /\ event = NoEvent
    /\ doc = "none"
    /\ bedrock = "none"
    /\ media_uri = <<>>
    /\ embeddings = <<>>
    /\ response = None
    /\ raised = None
    /\ fetched = <<>>
    /\ invoked = <<>>
    /\ run = 1
    /\ prev = None

\* start-transcribe is invoked by the workflow.
InitJob ==
    /\ st_event \in StEvents
    /\ st_pc = "start"
    /\ transcribe = NoJob
    /\ table = None
    /\ pt_pc = "idle"
    /\ pt_local = NoLocals
    /\ signals = <<>>
    /\ JobRest

NextJob ==
    \/ StStart
    \/ StPut
    \/ JobFinishes
    \/ PtGet
    \/ PtUpdate
    \/ PtSignal

SpecJob == InitJob /\ [][NextJob]_vars

\* process-transcribe is invoked for a job whose record start-transcribe
\* has written.
InitProcess ==
    /\ st_event \in StEvents
    /\ st_pc = "returned"
    /\ \E job_name \in Uuids :
          /\ \/ transcribe = [name |-> job_name, status |-> "COMPLETED",
                              media |-> st_event.s3_uri,
                              transcript |-> Some(TRANSCRIPT_URL)]
             \/ \E t \in {None, Some(TRANSCRIPT_URL)} :
                   transcribe = [name |-> job_name, status |-> "FAILED",
                                 media |-> st_event.s3_uri, transcript |-> t]
          /\ table = Some(JobItem(job_name, "IN_PROGRESS", st_event.s3_uri,
                                  st_event.sftoken))
    /\ pt_pc = "start"
    /\ pt_local = NoLocals
    /\ signals = <<>>
    /\ JobRest

NextProcess ==
    \/ PtGet
    \/ PtUpdate
    \/ PtSignal

SpecProcess == InitProcess /\ [][NextProcess]_vars

(***************************************************************************)
(* The upload client (upload_video.py): UploadManager.upload_file against  *)
(* the upload Lambdas above.  A file is its name, the suffix of the name   *)
(* without its dot and its size in bytes; the files of the model exist.    *)
(***************************************************************************)
\* MAX_FILE_SIZE is 5 * 1024 * 1024 * 1024 bytes, here in MiB.
MAX_FILE_SIZE_MiB == 5 * 1024
MiB == 1024 * 1024
DIRECT_UPLOAD_THRESHOLD == 100 * 1024 * 1024
ALLOWED_FORMATS == {"mp4", "mov", "avi", "webm", "mpeg", "mkv"}
CONTENT_TYPES ==
    ("mp4" :> "video/mp4") @@ ("mov" :> "video/quicktime") @@ ("avi" :> "video/x-msvideo")
    @@ ("webm" :> "video/webm") @@ ("mpeg" :> "video/mpeg") @@ ("mkv" :> "video/x-matroska")
ENDPOINT_VIDEO_UPLOAD == "/upload"
ENDPOINT_MULTIPART_INIT == "/multipart/init"
ENDPOINT_MULTIPART_COMPLETE == "/multipart/complete"

\* extension.lower(), on the suffixes of the model.
LowerExt(extension) ==
    IF extension = "MP4" THEN "mp4" ELSE IF extension = "MOV" THEN "mov" ELSE extension

\* file_size > MAX_FILE_SIZE
ExceedsMax(file_size) ==
    \/ file_size \div MiB > MAX_FILE_SIZE_MiB
    \/ file_size \div MiB = MAX_FILE_SIZE_MiB /\ file_size % MiB > 0

\* validate_file: None when the file is valid, else the error.
ValidateFile(f) ==
    IF f.size = 0 THEN Some("File is empty")
    ELSE IF ExceedsMax(f.size) THEN Some("File size exceeds maximum")
    ELSE IF LowerExt(f.extension) \notin ALLOWED_FORMATS THEN Some("File format is not allowed")
    ELSE None

\* get_content_type
GetContentType(f) ==
    IF LowerExt(f.extension) \in DOMAIN CONTENT_TYPES
    THEN CONTENT_TYPES[LowerExt(f.extension)]
    ELSE "video/mp4"

\* Mutant: a file of exactly the threshold takes the multipart path.
UsesMultipart_AtThreshold(file_size) == file_size >= DIRECT_UPLOAD_THRESHOLD

\* if file_size > self.config.DIRECT_UPLOAD_THRESHOLD
UsesMultipart(file_size) == file_size > DIRECT_UPLOAD_THRESHOLD

\* The payload of the calls of /upload and /multipart/init.
UploadPayload(f) ==
    [httpMethod |-> "POST", body_is_json |-> TRUE, filename |-> Some(<<f.name>>),
     userId |-> None, contentType |-> Some(GetContentType(f)),
     fileSize |-> Some(Num(f.size)), fileKey |-> None, uploadId |-> None, parts |-> None]

\* The payload of the call of /multipart/complete.
CompletePayload(upload_id_, file_key, parts) ==
    [httpMethod |-> "POST", body_is_json |-> TRUE, filename |-> None, userId |-> None,
     contentType |-> None, fileSize |-> None, fileKey |-> Some(file_key),
     uploadId |-> Some(upload_id_), parts |-> Some(parts)]

\* call_api, to the POST: the Lambda behind the endpoint is invoked.
CallApi(endpoint, lambda, payload) ==
    /\ api_log' = Append(api_log, [endpoint |-> endpoint, payload |-> payload,
                                   reply |-> None])
    /\ fn' = lambda
    /\ request' = payload
    /\ api_pc' = "start"
    /\ s3_calls' = <<>>
    /\ timestamp' = None
    /\ upload_id' = None
    /\ part_count' = 0
    /\ part_number' = 0
    /\ presigned_urls' = <<>>
    /\ reply' = None

\* call_api, from the response on: the api_log with the response in place.
WithReply(log) == [log EXCEPT ![Len(log)].reply = reply]

\* response.status_code not in [200, 201]
ApiFailed == Val(reply).statusCode \notin {200, 201}

\* The failure an upload ends with.
Failure(error) == Some([status |-> "failed", error |-> error])

\* upload_file: validation, the choice of the path, and the first call.
UploadFileStart ==
    /\ client_pc = "start"
    /\ IF ValidateFile(file) # None
       THEN /\ client_result' = Failure(Val(ValidateFile(file)))
            /\ client_pc' = "raised"
            /\ UNCHANGED <<api_log, apiVars>>
       ELSE IF UsesMultipart(file.size)
       THEN /\ CallApi(ENDPOINT_MULTIPART_INIT, "multipart-init", UploadPayload(file))
            /\ client_pc' = "multipart_init"
            /\ UNCHANGED client_result
       ELSE /\ CallApi(ENDPOINT_VIDEO_UPLOAD, "video-upload", UploadPayload(file))
            /\ client_pc' = "direct"
            /\ UNCHANGED client_result
    /\ UNCHANGED <<file, uploaded_parts, puts>>
    /\ UNCHANGED <<parseVars, handlerVars, runVars, trigVars, jobVars>>

\* start_direct_upload, from the response of /upload on: the whole file is
\* PUT to the presigned URL, which S3 accepts or not.
DirectUpload ==
    /\ client_pc = "direct"
    /\ api_pc = "returned"
    /\ api_log' = WithReply(api_log)
    /\ IF ApiFailed
       THEN /\ client_result' = Failure("Direct upload failed")
            /\ client_pc' = "raised"
            /\ UNCHANGED puts
       ELSE LET body == Val(reply).body
                put == [url |-> body.uploadUrl, from |-> 0, to |-> file.size,
                        content_type |-> GetContentType(file)]
            IN  \/ /\ puts' = Append(puts, [put |-> put, status |-> 200])
                   /\ client_result' = Some([status |-> "success", upload_type |-> "direct",
                                             file_key |-> body.fileKey])
                   /\ client_pc' = "returned"
                \/ /\ puts' = Append(puts, [put |-> put, status |-> 403])
                   /\ client_result' = Failure("Direct upload failed")
                   /\ client_pc' = "raised"
    /\ UNCHANGED <<file, uploaded_parts, apiVars>>
    /\ UNCHANGED <<parseVars, handlerVars, runVars, trigVars, jobVars>>

\* start_multipart_upload, from the response of /multipart/init to the
\* call of upload_parts.
MultipartInitReply ==
    /\ client_pc = "multipart_init"
    /\ api_pc = "returned"
    /\ api_log' = WithReply(api_log)
    /\ IF ApiFailed
       THEN /\ client_result' = Failure("Multipart upload failed")
            /\ client_pc' = "raised"
       ELSE IF Val(reply).body.uploadId = "" \/ Val(reply).body.presignedUrls = <<>>
       THEN /\ client_result' = Failure("Multipart upload failed")
            /\ client_pc' = "raised"
       ELSE /\ client_pc' = "upload_parts"
            /\ UNCHANGED client_result
    /\ UNCHANGED <<file, uploaded_parts, puts, apiVars>>
    /\ UNCHANGED <<parseVars, handlerVars, runVars, trigVars, jobVars>>

\* What /multipart/init answered.
InitBody == Val(api_log[1].reply).body

\* f.seek(start); f.read(part_size): the bytes from start to the end of
\* the part or of the file, none when start is at or behind the end.
ReadChunk(start, part_size, file_size) ==
    [from |-> start,
     to |-> IF start >= file_size THEN start
            ELSE IF start + part_size > file_size THEN file_size
            ELSE start + part_size]

\* upload_parts: one iteration of its loop.
UploadPart ==
    /\ client_pc = "upload_parts"
    /\ Len(uploaded_parts) < Len(InitBody.presignedUrls)
    /\ LET part == InitBody.presignedUrls[Len(uploaded_parts) + 1]
           part_number_ == part.partNumber
           start == (part_number_ - 1) * InitBody.partSize
           chunk == ReadChunk(start, InitBody.partSize, file.size)
           put == [url |-> part.uploadUrl, from |-> chunk.from, to |-> chunk.to,
                   content_type |-> GetContentType(file)]
       IN  \/ \E etag \in {"", "etag"} :
                 /\ puts' = Append(puts, [put |-> put, status |-> 200])
                 /\ uploaded_parts' = Append(uploaded_parts,
                                             [PartNumber |-> part_number_, ETag |-> etag])
                 /\ UNCHANGED <<client_pc, client_result>>
           \/ /\ puts' = Append(puts, [put |-> put, status |-> 403])
              /\ client_result' = Failure("Multipart upload failed")
              /\ client_pc' = "raised"
              /\ UNCHANGED uploaded_parts
    /\ UNCHANGED <<file, api_log, apiVars>>
    /\ UNCHANGED <<parseVars, handlerVars, runVars, trigVars, jobVars>>

\* upload_parts returns; complete_multipart_upload calls
\* /multipart/complete.
MultipartCompleteCall ==
    /\ client_pc = "upload_parts"
    /\ Len(uploaded_parts) = Len(InitBody.presignedUrls)
    /\ CallApi(ENDPOINT_MULTIPART_COMPLETE, "multipart-complete",
               CompletePayload(InitBody.uploadId, InitBody.fileKey, uploaded_parts))
    /\ client_pc' = "multipart_complete"
    /\ UNCHANGED <<file, uploaded_parts, puts, client_result>>
    /\ UNCHANGED <<parseVars, handlerVars, runVars, trigVars, jobVars>>

\* complete_multipart_upload, from the response on, and the return of
\* start_multipart_upload.
MultipartCompleteReply ==
    /\ client_pc = "multipart_complete"
    /\ api_pc = "returned"
    /\ api_log' = WithReply(api_log)
    /\ IF ApiFailed
       THEN /\ client_result' = Failure("Multipart upload failed")
            /\ client_pc' = "raised"
       ELSE /\ client_result' = Some([status |-> "success", upload_type |-> "multipart",
                                      file_key |-> InitBody.fileKey])
            /\ client_pc' = "returned"
    /\ UNCHANGED <<file, uploaded_parts, puts, apiVars>>
    /\ UNCHANGED <<parseVars, handlerVars, runVars, trigVars, jobVars>>

\* The files the client is given.
FileNames ==
    { <<"lecture.mp4", "mp4">>, <<"lecture.MP4", "MP4">>, <<"lecture.mov", "mov">>,
      <<"clip.avi", "avi">>, <<"clip.webm", "webm">>, <<"clip.mpeg", "mpeg">>,
      <<"clip.mkv", "mkv">>, <<"notes.txt", "txt">>, <<"README", "">> }

SizesOnDisk ==
    { n \in { k * PART_SIZE + d : k \in 0..MaxParts, d \in {-1, 0, 1} } :
         n >= 0 /\ n <= MaxParts * PART_SIZE }

Files ==
    { [name |-> f[1], extension |-> f[2], size |-> n] : f \in FileNames, n \in SizesOnDisk }

InitClient ==
    /\ file \in Files
    /\ client_pc = "start"
    /\ api_log = <<>>
    /\ uploaded_parts = <<>>
    /\ puts = <<>>
    /\ client_result = None
    /\ ApiIdle
    /\ TrigIdle
    /\ JobIdle
    /\ items = <<>>
    /\ pc = "idle"
    /\ idx = 1
    /\ result = <<>>
    /\ chunks = <<>>
    /\ cur_sec = None /\ cur_spk = None /\ cur_txt = None
    /\ event = NoEvent
    /\ doc = "none"
    /\ bedrock = "none"
    /\ media_uri = <<>>
    /\ embeddings = <<>>
    /\ response = None
    /\ raised = None
    /\ fetched = <<>>
    /\ invoked = <<>>
    /\ run = 1
    /\ prev = None

NextClient ==
    \/ UploadFileStart
    \/ DirectUpload
    \/ MultipartInitReply
    \/ UploadPart
    \/ MultipartCompleteCall
    \/ MultipartCompleteReply
    \/ ApiStart
    \/ VideoUpload
    \/ MultipartInitCreate
    \/ MultipartInitPresign
    \/ MultipartInitReturn
    \/ MultipartComplete

SpecClient == InitClient /\ [][NextClient]_vars

(***************************************************************************)
(* Properties of parse_transcript.                                         *)
(***************************************************************************)
\* The word (non-punctuation) items of a token sequence.
WordIndexes(its) == { k \in 1..Len(its) : its[k].type # "punctuation" }

\* The texts of Segments a..b joined by single spaces.
RECURSIVE Join(_, _, _)
Join(segs, a, b) ==
    IF a = b THEN segs[a].txt
    ELSE JoinSpace(Join(segs, a, b - 1), segs[b].txt)

\* Longer than MAX_CHUNK_CHARS and, stripped, ending in '.', '!' or '?'.
OverAtSentenceEnd(txt) ==
    /\ StrLen(txt) > 1000
    /\ LET t == RStrip(txt) IN t # <<>> /\ Last(t).c \in {".", "!", "?"}

ChunkIndexes == 1..Len(chunks)

\* C1: parse_transcript emits at most as many Chunks as there are word
\* tokens, and no Chunk comes from a punctuation token alone: every Chunk
\* starts with the content of a word token and carries that word's floored
\* start time and speaker.
C1_ChunksAtMostWords ==
    /\ Len(chunks) <= Cardinality(WordIndexes(items))
    /\ \A i \in ChunkIndexes :
          \E k \in WordIndexes(items) :
             /\ chunks[i].sec = Val(items[k].start_time) \div 100
             /\ chunks[i].spk = SpeakerOf(items[k])
             /\ StartsWith(chunks[i].txt, items[k].content)

C1_Witness ==
    /\ pc = "parsed"
    /\ Len(items) >= 4
    /\ items[1].type = "punctuation"
    /\ items[Len(items)].type = "punctuation"
    /\ Len(chunks) = Cardinality(WordIndexes(items))
    /\ Len(chunks) >= 2

WordsNotBlank ==
    \A k \in WordIndexes(items) : ~IsBlank(items[k].content)

MaxOf(a, b) == IF a >= b THEN a ELSE b
LongestSegment ==
    IF result = <<>> THEN 0
    ELSE CHOOSE n \in { StrLen(result[k].txt) : k \in 1..Len(result) } :
            \A k \in 1..Len(result) : StrLen(result[k].txt) <= n
SizeBound(L) == MaxOf(1000, L) + 1 + L + 1 + 99

SegmentsEndSentences ==
    \A k \in 1..Len(result) :
       LET t == RStrip(result[k].txt) IN t # <<>> /\ Last(t).c \in {".", "!", "?"}

ScenarioAChunks ==
    << Seg(0, "spk_0", Lit(<<"H","e","l","l","o"," ","w","o","r","l","d",".">>)),
       Seg(1, "spk_1", Lit(<<"T","h","i","s"," ","i","s"," ",
                             "s","p","e","a","k","e","r"," ","t","w","o",".">>)) >>

SpeakerRun(a, b) ==
    /\ a <= b
    /\ \A k \in a..b : result[k].spk = result[a].spk
    /\ (a > 1 => result[a - 1].spk # result[a].spk)
    /\ b < Len(result)
    /\ result[b + 1].spk # result[a].spk

C7_SizeFlushBeforeSpeakerChange ==
    pc = "parsed" =>
       \A a \in 1..Len(result) : \A b \in a..Len(result) :
          (/\ SpeakerRun(a, b)
           /\ \E j \in (a + 1)..(b - 1) : OverAtSentenceEnd(Join(result, a, j)))
          => \E p \in ChunkIndexes : \E q \in ChunkIndexes :
                /\ p < q
                /\ \E j \in (a + 1)..(b - 1) :
                      /\ OverAtSentenceEnd(Join(result, a, j))
                      /\ chunks[p] = Seg(result[a].sec, result[a].spk, Join(result, a, j))
                /\ \E f \in (a + 1)..b :
                      chunks[q] = Seg(result[f].sec, result[a].spk, Join(result, f, b))

C7_Witness ==
    /\ pc = "parsed"
    /\ \E a \in 1..Len(result) : \E b \in a..Len(result) :
          /\ SpeakerRun(a, b)
          /\ \E j \in (a + 1)..(b - 1) : OverAtSentenceEnd(Join(result, a, j))

\* C8: Scenario C.  At end of stream a pending accumulator shorter than 100
\* characters whose speaker is that of the last emitted chunk replaces that
\* chunk by (its start_second, its speaker, its text + " " + accumulator
\* text) and is not emitted itself; otherwise (no previous chunk, another
\* speaker, or 100 characters or more) it is emitted unchanged as the final
\* chunk.
AtEndOfStream == pc = "combine" /\ idx > Len(result) /\ cur_txt # None

C9_ProcessItems ==
    [][ (pc = "process_items" /\ idx <= Len(items)) =>
          LET item == items[idx] IN
          IF item.type # "punctuation"
          THEN /\ Len(result') = Len(result) + 1
               /\ \A k \in 1..Len(result) : result'[k] = result[k]
               /\ result'[Len(result) + 1] =
                     [sec |-> Val(item.start_time) \div 100,
                      spk |-> IF item.speaker_label = <<>> THEN "spk_0"
                              ELSE item.speaker_label[1],
                      txt |-> item.content]
          ELSE IF result = <<>>
          THEN result' = <<>>
          ELSE /\ Len(result') = Len(result)
               /\ \A k \in 1..(Len(result) - 1) : result'[k] = result[k]
               /\ result'[Len(result)].sec = result[Len(result)].sec
               /\ result'[Len(result)].spk = result[Len(result)].spk
               /\ result'[Len(result)].txt = Cat(result[Len(result)].txt, item.content)
      ]_vars

\* A leading punctuation token was dropped and a later one attached.
C9_Witness ==
    /\ pc = "process_items"
    /\ idx > Len(items)
    /\ Len(items) >= 3
    /\ items[1].type = "punctuation"
    /\ items[Len(items)].type = "punctuation"
    /\ Len(result) >= 2
    /\ Last(Last(result).txt).c \in {".", "?"}

(***************************************************************************)
(* Properties of the handler and of generate_text_embeddings.              *)
(***************************************************************************)
\* An EmbeddingRecord with its id and created_at fields blanked.
WithoutIdAndTime(rec) == [rec EXCEPT !.id = "", !.created_at = ""]

C10_OneRecordPerChunk ==
    /\ pc = "done" => Len(embeddings) = Len(chunks)
    /\ pc \in {"embed", "done"} =>
          /\ Len(embeddings) <= Len(chunks)
          /\ \A i \in 1..Len(embeddings) :
                /\ embeddings[i].text = chunks[i].txt
                /\ embeddings[i].start_second = chunks[i].sec
                /\ embeddings[i].speaker = chunks[i].spk

C10_Witness ==
    /\ pc = "done"
    /\ Len(chunks) >= 2
    /\ Len(embeddings) = Len(chunks)
    /\ chunks[1] # chunks[2]

(***************************************************************************)
(* Properties of the process-results handler.                              *)
(***************************************************************************)
\* C11: a vector whose length differs from the requested dimension makes
\* the call fail, so that every EmbeddingRecord produced carries a vector
\* of exactly EMBEDDING_DIM floats.
C11_VectorLengthChecked ==
    \A i \in 1..Len(embeddings) : embeddings[i].embedding.len = EMBEDDING_DIM

\* The stage a position of the handler belongs to.
StageOf(p) ==
    CASE p \in {"handler", "fetch"} -> 1
      [] p = "process_items" -> 2
      [] p = "combine" -> 3
      [] p \in {"parsed", "embed"} -> 4
      [] p = "done" -> 5
      [] OTHER -> 6

\* C12: the stages run in the order FetchTranscript, Normalize, Aggregate,
\* Embed, Summarize, each one starting when the one before it has consumed
\* its whole input; the chunk sequence does not change once embedding has
\* started; and each embedding call is for the chunk that follows the last
\* chunk embedded, all earlier calls having returned a record.
C12_StagesInOrder ==
    [][ /\ pc' # "failed" => StageOf(pc') \in {StageOf(pc), StageOf(pc) + 1}
        /\ (StageOf(pc) = 2 /\ StageOf(pc') = 3) => idx > Len(items)
        /\ (StageOf(pc) = 3 /\ StageOf(pc') = 4) => idx > Len(result)
        /\ (StageOf(pc) = 4 /\ StageOf(pc') = 5) => Len(invoked) = Len(chunks)
        /\ StageOf(pc) >= 4 => chunks' = chunks
        /\ invoked' # invoked =>
              /\ StageOf(pc) = 4
              /\ Len(embeddings) = Len(invoked)
              /\ Len(invoked) < Len(chunks)
              /\ invoked' = Append(invoked, chunks[Len(invoked) + 1].txt)
      ]_vars

C12_Witness ==
    /\ pc = "done"
    /\ Len(invoked) >= 2
    /\ invoked[1] # invoked[2]
    /\ Len(items) > Len(result)

\* C13: a failure of the fetch, of the parse or of an embedding call ends
\* the handler with that failure: nothing more happens, no summary is
\* returned, and no chunk is sent to the embedding service twice.  A
\* summary is returned only when every chunk has its record.
C13_NoPartialSuccess ==
    /\ [](/\ raised # None => pc = "failed" /\ response = None
          /\ response # None =>
                /\ raised = None
                /\ Len(embeddings) = Len(chunks)
                /\ Len(invoked) = Len(chunks)
          /\ Len(invoked) <= Len(chunks)
          /\ \A i \in 1..Len(invoked) : invoked[i] = chunks[i].txt
          /\ Len(embeddings) <= Len(invoked))
    /\ [][pc # "failed"]_vars

C13_Witness ==
    /\ pc = "failed"
    /\ raised = Some("ClientError")
    /\ Len(embeddings) = 1
    /\ Len(invoked) = 2
    /\ Len(chunks) = 3

\* C14: when transcriptUrl is missing or empty the handler raises its input
\* error; the transcript store receives no request and the embedding
\* service no call.
C14_MissingLocator ==
    (event.transcriptUrl = None \/ event.transcriptUrl = Some(<<>>)) =>
        /\ fetched = <<>>
        /\ invoked = <<>>
        /\ response = None
        /\ pc \in {"handler", "failed"}
        /\ pc = "failed" => raised = Some("ValueError: transcriptUrl is required")

C14_Witness ==
    /\ event.transcriptUrl = Some(<<>>)
    /\ pc = "failed"
    /\ raised # None


\* C15 as stated: the summary's segmentCount is the number of Segments the
\* Token Normalizer produced, and its embeddingCount the number of Chunks.
C15_SegmentCountOfNormalizer ==
    response # None =>
        /\ Val(response).segmentCount = Len(result)
        /\ Val(response).embeddingCount = Len(chunks)

\* C15 as amended: the summary's segmentCount and its embeddingCount are
\* both the number of Chunks the Chunk Aggregator emitted.
C15_SegmentCountOfChunks ==
    response # None =>
        /\ Val(response).segmentCount = Len(chunks)
        /\ Val(response).embeddingCount = Len(chunks)

\* A summary for a transcript with more Segments than Chunks.
C15_Witness ==
    /\ response # None
    /\ Len(chunks) >= 1
    /\ Len(result) > Len(chunks)

\* C16: every summary has statusCode 200 and equal counts.
C16_SummaryCountsEqual ==
    response # None =>
        /\ Val(response).statusCode = 200
        /\ Val(response).embeddingCount = Val(response).segmentCount

C16_Witness ==
    /\ response # None
    /\ Val(response).embeddingCount >= 2
    /\ pc = "done"

\* C17: Scenario D.  With an empty token sequence there are no Segments, no
\* Chunks and no EmbeddingRecords, the embedding service is never called,
\* nothing after the fetch raises, and the summary returned counts 0 and 0.
C17_EmptyTranscript ==
    (doc = "transcript" /\ items = <<>>) =>
        /\ result = <<>>
        /\ chunks = <<>>
        /\ embeddings = <<>>
        /\ invoked = <<>>
        /\ StageOf(pc) \in 2..4 => raised = None
        /\ (pc = "failed" /\ fetched # <<>>) => raised = Some("ClientError")
        /\ pc = "done" =>
              response = Some([statusCode |-> 200, segmentCount |-> 0,
                               embeddingCount |-> 0])

C17_Witness ==
    /\ doc = "transcript"
    /\ items = <<>>
    /\ pc = "done"
    /\ response # None
    /\ Len(fetched) = 1

\* The index in its of the n-th word item.
NthWord(its, n) ==
    CHOOSE k \in WordIndexes(its) :
       Cardinality({ j \in WordIndexes(its) : j <= k }) = n

WordTimesNonDecreasing ==
    \A a \in WordIndexes(items) : \A b \in WordIndexes(items) :
       a <= b => Val(items[a].start_time) <= Val(items[b].start_time)

\* C18: when the word start times are non-decreasing, the start_seconds of
\* the emitted chunks are non-decreasing, and every chunk (a trailing merge
\* included) carries the floor of the start time of the first word of its
\* text.
C18_TimeOrder ==
    (pc = "parsed" /\ WordTimesNonDecreasing) =>
        /\ \A i \in ChunkIndexes : \A j \in ChunkIndexes :
              i <= j => chunks[i].sec <= chunks[j].sec
        /\ \A i \in ChunkIndexes :
              \E a \in i..Len(result) : \E b \in a..Len(result) : \E c \in b..Len(result) :
                 /\ i = 1 => a = 1
                 /\ \/ c = b /\ chunks[i].txt = Join(result, a, b)
                    \/ chunks[i].txt = JoinSpace(Join(result, a, b), Join(result, b, c))
                 /\ chunks[i].sec = Val(items[NthWord(items, a)].start_time) \div 100

\* A trailing merge of a fragment that starts in a later second than the
\* chunk it is merged into, after a chunk that starts earlier still.
C18_Witness ==
    /\ pc = "parsed"
    /\ WordTimesNonDecreasing
    /\ cur_txt # None
    /\ Len(chunks) >= 1
    /\ Last(chunks).txt # Val(cur_txt)
    /\ Last(chunks).sec < Val(cur_sec)


(***************************************************************************)
(* Properties of the upload Lambdas.                                       *)
(***************************************************************************)
\* The content type and the fileSize field multipart-init works with.
GivenContentType ==
    IF request.contentType = None THEN "video/mp4" ELSE Val(request.contentType)

PositiveSize ==
    /\ request.fileSize # None
    /\ Val(request.fileSize).numeric
    /\ Val(request.fileSize).n > 0

NonPositiveSize ==
    /\ request.fileSize # None
    /\ Val(request.fileSize).numeric
    /\ Val(request.fileSize).n <= 0

NoS3Failure == \A i \in 1..Len(s3_calls) : s3_calls[i].outcome = "ok"

\* C19: a POST to multipart-init with an allowed content type and
\* fileSize > 0 is answered (S3 permitting) with partCount =
\* ceil(fileSize / PART_SIZE), PART_SIZE being 100 MB, and with partCount
\* presigned URLs numbered 1..partCount in ascending order; a POST with
\* fileSize <= 0 or with a content type outside the allowed list is
\* answered with 400 and creates no multipart upload.
C19_PartCountAndRejection ==
    (/\ fn = "multipart-init"
     /\ reply # None
     /\ request.httpMethod = "POST"
     /\ request.body_is_json) =>
        /\ (/\ GivenContentType \in {"video/mp4", "video/mov"}
            /\ PositiveSize
            /\ NoS3Failure) =>
              /\ Val(reply).statusCode = 200
              /\ LET body == Val(reply).body
                     size == Val(request.fileSize).n
                 IN  /\ body.partSize = 104857600
                     /\ body.partCount * body.partSize >= size
                     /\ (body.partCount - 1) * body.partSize < size
                     /\ Len(body.presignedUrls) = body.partCount
                     /\ \A i \in 1..Len(body.presignedUrls) :
                           body.presignedUrls[i].partNumber = i
        /\ (NonPositiveSize \/ GivenContentType \notin {"video/mp4", "video/mov"}) =>
              /\ Val(reply).statusCode = 400
              /\ \A i \in 1..Len(s3_calls) : s3_calls[i].op # "create_multipart_upload"

\* C20: every reply of video-upload, multipart-init and multipart-complete
\* carries Access-Control-Allow-Origin: *, and every invocation ends with a
\* reply: the preflight, the 200, the 400 and the 500 alike.
C20_CorsOnEveryReply ==
    /\ api_pc = "returned" => reply # None
    /\ reply # None =>
          /\ "Access-Control-Allow-Origin" \in DOMAIN Val(reply).headers
          /\ Val(reply).headers["Access-Control-Allow-Origin"] = "*"
          /\ Val(reply).statusCode \in {200, 400, 500}

\* multipart-complete answers 500 after S3 has refused the completion.
C20_Witness ==
    /\ fn = "multipart-complete"
    /\ reply # None
    /\ Val(reply).statusCode = 500
    /\ s3_calls # <<>>


(***************************************************************************)
(* Properties of s3-trigger.                                               *)
(***************************************************************************)
\* The decoded key of the event ends, whatever the case, in .mp4 or .mov.
DecodedKeyIsVideo ==
    LET key == UnquotePlus(trig_event.key)
    IN  /\ Len(key) >= 4
        /\ Lower(SubSeq(key, Len(key) - 3, Len(key))) \in
              { <<".", "m", "p", "4">>, <<".", "m", "o", "v">> }

\* C21: s3-trigger calls start_execution once if the event is not the S3
\* test event and its decoded key ends, whatever the case, in .mp4 or
\* .mov, and never otherwise, in which case it returns statusCode 200.  The
\* input of the execution carries s3_uri = s3://<bucket>/<decoded key>,
\* and its name is 's3-trigger-' followed by the input's sftoken.  If the
\* service accepts the call the handler returns 200, else it raises.
C21_OneExecutionPerVideo ==
    /\ Len(sfn_calls) <= 1
    /\ trig_pc \in {"returned", "raised"} =>
          /\ Len(sfn_calls) = 1 <=> (trig_event.form # "sns_test" /\ DecodedKeyIsVideo)
          /\ sfn_calls = <<>> =>
                /\ trig_reply # None
                /\ Val(trig_reply).statusCode = 200
                /\ trig_raised = None
    /\ \A i \in 1..Len(sfn_calls) :
          /\ sfn_calls[i].call.input.s3_uri =
                <<"s", "3", ":", "/", "/">> \o trig_event.bucket \o <<"/">>
                   \o UnquotePlus(trig_event.key)
          /\ sfn_calls[i].call.name =
                <<"s", "3", "-", "t", "r", "i", "g", "g", "e", "r", "-">>
                   \o sfn_calls[i].call.input.sftoken
          /\ sfn_calls[i].outcome = "ok" =>
                trig_reply # None /\ Val(trig_reply).statusCode = 200
          /\ sfn_calls[i].outcome = "raised" => trig_raised # None /\ trig_reply = None

\* A workflow was started for an encoded key with an upper-case extension.
C21_Witness ==
    /\ trig_pc = "returned"
    /\ Len(sfn_calls) = 1
    /\ sfn_calls[1].outcome = "ok"
    /\ UnquotePlus(trig_event.key) # trig_event.key
    /\ Lower(trig_event.key) # trig_event.key

\* process-transcribe has finished, by returning or raising.
PtFinished == pt_pc \in {"returned", "raised"}

\* The record holds what to_update held: status and the two URLs.
RecordHolds(job_status) ==
    /\ table # None
    /\ Val(table).status = Some(job_status)
    /\ Val(table).transcriptUrl = transcribe.transcript
    /\ Val(table).mediaUrl = transcribe.media

\* C22: for each Transcribe state-change event, process-transcribe first
\* writes status, transcriptUrl and mediaUrl into the job's record and then
\* sends exactly one signal, with the token read from that record: a
\* success signal iff the status is COMPLETED, a failure signal otherwise.
\* Calls that AWS itself refuses (ClientError) are set aside.
C22_WriteThenOneSignal ==
    /\ Len(signals) <= 1
    /\ \A i \in 1..Len(signals) :
          /\ RecordHolds(transcribe.status)
          /\ signals[i].signal.token = Val(table).sftoken
          /\ signals[i].signal.kind = "success" <=> transcribe.status = "COMPLETED"
          /\ signals[i].signal.kind = "failure" <=> transcribe.status # "COMPLETED"
    /\ (PtFinished /\ pt_local.raised # Some("ClientError")) => Len(signals) = 1

\* C28: in every interleaving of start-transcribe and process-transcribe,
\* process-transcribe signals with the task token start-transcribe was
\* given, never with a missing one, and once both have finished the job's
\* record holds both the task token and the terminal status.
C28_TokenAndStatusSurvive ==
    /\ \A i \in 1..Len(signals) :
          /\ signals[i].signal.token # None
          /\ signals[i].signal.token = st_event.sftoken
    /\ (st_pc = "returned" /\ pt_pc = "returned") =>
          /\ table # None
          /\ Val(table).sftoken = st_event.sftoken
          /\ Val(table).status = Some(transcribe.status)
          /\ transcribe.status \in {"COMPLETED", "FAILED"}

\* t is the end of s.
IsSuffix(s, t) ==
    \/ t = <<>>
    \/ /\ Len(s) >= Len(t)
       /\ SubSeq(s, Len(s) - Len(t) + 2, Len(s)) = Tail(t)
       /\ s[Len(s) - Len(t) + 1].c = t[1].c
       /\ s[Len(s) - Len(t) + 1].n >= t[1].n

\* The step of _combine_by_speaker that is about to be taken is a
\* size-based flush: the Segment has the accumulator's speaker and a chunk
\* is emitted.
IsSizeFlush ==
    /\ pc = "combine" /\ idx <= Len(result)
    /\ cur_spk # None /\ result[idx].spk = Val(cur_spk)
    /\ Len(chunks') = Len(chunks) + 1

\* C24: at a size-based flush the Segment that triggered it is the last
\* piece of the chunk just emitted and is the seed (second, speaker, text)
\* of the new accumulator; in the returned list the next chunk of the
\* speaker starts with the text the earlier one ends with.
C24_FlushTriggerInBoth ==
    /\ [][IsSizeFlush =>
            /\ Last(chunks').txt = JoinSpace(Val(cur_txt), result[idx].txt)
            /\ Last(chunks').sec = Val(cur_sec)
            /\ Last(chunks').spk = Val(cur_spk)
            /\ cur_sec' = Some(result[idx].sec)
            /\ cur_spk' = Some(result[idx].spk)
            /\ cur_txt' = Some(result[idx].txt)]_vars
    /\ [](pc = "parsed" =>
            \A i \in 1..(Len(chunks) - 1) :
               chunks[i].spk = chunks[i + 1].spk =>
                  \E j \in 1..Len(result) :
                     /\ IsSuffix(chunks[i].txt, Cat(Rep(" ", 1), result[j].txt))
                     /\ StartsWith(chunks[i + 1].txt, result[j].txt)
                     /\ chunks[i + 1].sec = result[j].sec
                     /\ chunks[i + 1].spk = result[j].spk)

\* A size-based flush has just been taken: the accumulator is the Segment
\* the last chunk ends with.
C24_Witness ==
    /\ pc = "combine" /\ idx > 1
    /\ chunks # <<>> /\ cur_txt # None
    /\ Last(chunks).spk = Val(cur_spk)
    /\ Val(cur_txt) = result[idx - 1].txt
    /\ IsSuffix(Last(chunks).txt, Cat(Rep(" ", 1), Val(cur_txt)))

\* The step about to be taken emits the accumulator because the speaker
\* changes.
IsSpeakerChange ==
    /\ pc = "combine" /\ idx <= Len(result)
    /\ cur_spk # None /\ result[idx].spk # Val(cur_spk)

\* The step about to be taken is the end of the loop with a pending
\* accumulator.
IsEndOfStream == pc = "combine" /\ idx > Len(result) /\ cur_txt # None

\* The most recently emitted chunk has the accumulator's speaker.
LastChunkOfAccumulatorSpeaker ==
    chunks # <<>> /\ cur_spk # None /\ Last(chunks).spk = Val(cur_spk)

StripPrefix(s, t) ==
    IF t = <<>> THEN s
    ELSE IF s[Len(t)].n = Last(t).n
         THEN SubSeq(s, Len(t) + 1, Len(s))
         ELSE <<[c |-> Last(t).c, n |-> (s[Len(t)].n) - (Last(t).n)]>>
                 \o SubSeq(s, Len(t) + 1, Len(s))

\* The positions of the word tokens, in order.
WordPositions(its) == SelectSeq([p \in 1..Len(its) |-> p],
                                LAMBDA p : its[p].type = "pronunciation")

\* The contents of the tokens at positions a..b, one after another.
RECURSIVE ContentsOf(_, _, _)
ContentsOf(its, a, b) ==
    IF a > b THEN EmptyStr ELSE Cat(ContentsOf(its, a, b - 1), its[b].content)

\* Every token's content is in a Segment: the n-th Segment is the n-th word
\* followed by the punctuation up to the next word.
TokensInSegments(its, segs) ==
    LET wp == WordPositions(its)
    IN  /\ Len(segs) = Len(wp)
        /\ \A n \in 1..Len(wp) :
              segs[n].txt = ContentsOf(its, wp[n],
                                       IF n < Len(wp) THEN wp[n + 1] - 1 ELSE Len(its))

\* The chunks from the k-th on, of which `rest` of the k-th is still to be
\* read, are made of the Segments from the i-th on as space-delimited
\* pieces in input order, where a piece may repeat the Segment before it;
\* every piece has its chunk's speaker.
RECURSIVE SegmentsInChunks(_, _, _, _, _, _)
SegmentsInChunks(segs, done, i, k, rest, at_start) ==
    IF ~at_start /\ rest = <<>>
    THEN IF k = Len(done)
         THEN i > Len(segs)
         ELSE SegmentsInChunks(segs, done, i, k + 1, done[k + 1].txt, TRUE)
    ELSE /\ at_start \/ StartsWith(rest, Rep(" ", 1))
         /\ LET text == IF at_start THEN rest ELSE StripPrefix(rest, Rep(" ", 1))
            IN  \E j \in {i - 1, i} \cap (1..Len(segs)) :
                   /\ segs[j].spk = done[k].spk
                   /\ segs[j].txt # <<>>
                   /\ StartsWith(text, segs[j].txt)
                   /\ SegmentsInChunks(segs, done, j + 1, k,
                                       StripPrefix(text, segs[j].txt), FALSE)

\* C26: no content is lost.  For a token sequence that starts with a word,
\* every token's content is in a Segment, and every Segment's text is a
\* space-delimited piece of a returned chunk of the same speaker, the
\* pieces following the input order.
C26_NoContentLost ==
    (pc = "parsed" /\ items # <<>> /\ items[1].type = "pronunciation") =>
        /\ TokensInSegments(items, result)
        /\ chunks # <<>>
        /\ SegmentsInChunks(result, chunks, 1, 1, chunks[1].txt, TRUE)

\* A transcript with punctuation, a size-based flush and a speaker change
\* has been parsed.
C26_Witness ==
    /\ pc = "parsed"
    /\ items # <<>> /\ items[1].type = "pronunciation"
    /\ Len(items) > Len(result)
    /\ Len(chunks) >= 3
    /\ chunks[1].spk = chunks[2].spk
    /\ chunks[2].spk # chunks[3].spk

\* C27: in every chunk sequence of _combine_by_speaker, if two adjacent
\* chunks have the same speaker then the earlier one came from a size-based
\* flush: its text is longer than _MAX_CHUNK_CHARS and, with trailing
\* whitespace stripped, ends in ".", "!" or "?".
C27_SameSpeakerNeighbours ==
    \A i \in 1..(Len(chunks) - 1) :
       chunks[i].spk = chunks[i + 1].spk =>
          /\ StrLen(chunks[i].txt) > _MAX_CHUNK_CHARS
          /\ RStrip(chunks[i].txt) # <<>>
          /\ Last(RStrip(chunks[i].txt)).c \in {".", "!", "?"}

\* The returned list has two adjacent chunks of one speaker, the earlier
\* one ending in whitespace after its sentence end.
C27_Witness ==
    /\ pc = "parsed"
    /\ Len(chunks) >= 2
    /\ chunks[1].spk = chunks[2].spk
    /\ Last(chunks[1].txt).c = " "

\* The client has taken the multipart path, or the direct one.
TookMultipart == api_log # <<>> /\ api_log[1].endpoint = "/multipart/init"
TookDirect == api_log # <<>> /\ api_log[1].endpoint = "/upload"

\* /multipart/init has answered with its parts.
InitAnswered ==
    /\ TookMultipart
    /\ api_log[1].reply # None
    /\ Val(api_log[1].reply).statusCode = 200

\* C23: upload_file takes the multipart path iff the file is larger than
\* DIRECT_UPLOAD_THRESHOLD (100 MB); a file of exactly 100 MB or less takes
\* the direct path, with one presigned PUT.  On the multipart path every
\* part is uploaded before the complete request, which carries the uploadId
\* and fileKey init returned and one {PartNumber, ETag} per presigned URL.
C23_PathBySize ==
    /\ api_log # <<>> =>
          /\ TookMultipart <=> file.size > 100 * 1024 * 1024
          /\ TookDirect <=> file.size <= 100 * 1024 * 1024
    /\ TookDirect =>
          /\ Len(api_log) = 1
          /\ uploaded_parts = <<>>
          /\ Len(puts) <= 1
          /\ (client_result # None /\ Val(client_result).status = "success") =>
                (Len(puts) = 1 /\ puts[1].put.from = 0 /\ puts[1].put.to = file.size)
    /\ TookMultipart =>
          /\ Len(api_log) <= 2
          /\ \A i \in 1..Len(api_log) :
                api_log[i].endpoint = "/multipart/complete" =>
                   LET init == Val(api_log[1].reply).body
                       sent == api_log[i].payload
                   IN  /\ i = 2
                       /\ sent.uploadId = Some(init.uploadId)
                       /\ sent.fileKey = Some(init.fileKey)
                       /\ Len(Val(sent.parts)) = Len(init.presignedUrls)
                       /\ \A k \in 1..Len(init.presignedUrls) :
                             /\ Val(sent.parts)[k].PartNumber = init.presignedUrls[k].partNumber
                             /\ puts[k].put.url = init.presignedUrls[k].uploadUrl
                             /\ puts[k].status = 200
                       /\ Len(puts) = Len(init.presignedUrls)
          /\ (client_result # None /\ Val(client_result).status = "success") =>
                (Len(api_log) = 2 /\ api_log[2].endpoint = "/multipart/complete")

\* A file of more than one part has been uploaded by the multipart path.
C23_Witness ==
    /\ client_pc = "returned"
    /\ Val(client_result).upload_type = "multipart"
    /\ Len(uploaded_parts) >= 2
    /\ Len(api_log) = 2

\* C29: in the multipart flow the byte ranges the client reads for the parts
\* multipart-init returned, part k being [(k-1)*partSize, min(k*partSize,
\* fileSize)), are non-empty, follow one another without gap or overlap
\* from byte 0 and, once every part is read, end at fileSize; only the last
\* part may be shorter than partSize.
C29_PartsCoverFile ==
    InitAnswered =>
       LET init == Val(api_log[1].reply).body
           n == Len(init.presignedUrls)
       IN  /\ Len(puts) <= n
           /\ \A k \in 1..Len(puts) :
                 /\ puts[k].put.from = (k - 1) * init.partSize
                 /\ puts[k].put.to = IF k * init.partSize < file.size
                                     THEN k * init.partSize ELSE file.size
                 /\ puts[k].put.from < puts[k].put.to
                 /\ puts[k].put.from = IF k = 1 THEN 0 ELSE puts[k - 1].put.to
                 /\ k < n => puts[k].put.to - puts[k].put.from = init.partSize
           /\ Len(puts) = n => (n >= 1 /\ puts[n].put.to = file.size)

\* Every part of a file whose size is a multiple of the part size has been
\* read.
C29_Witness ==
    /\ InitAnswered
    /\ Len(puts) = Len(Val(api_log[1].reply).body.presignedUrls)
    /\ Len(puts) >= 2
    /\ file.size % PART_SIZE = 0

\* C30: every file validate_file accepts is sent with a contentType the
\* video-upload and multipart-init handlers accept: the content type of
\* every extension in ALLOWED_FORMATS is in ALLOWED_TYPES, so no call of the
\* client is answered 400 'Invalid content type'.
C30_ClientTypesAccepted ==
    \A i \in 1..Len(api_log) :
       (api_log[i].reply # None /\ api_log[i].payload.contentType # None) =>
          /\ Val(api_log[i].payload.contentType) \in {"video/mp4", "video/mov"}
          /\ ~(/\ Val(api_log[i].reply).statusCode = 400
                /\ Val(api_log[i].reply).body.error = "Invalid content type")


====
